---- MODULE Spec2Model ----
(***************************************************************************)
(* Live-configuration reconciliation of cc-switch (src-tauri):             *)
(*   services/provider/live.rs, droid_config.rs, mcp/droid.rs.             *)
(*                                                                         *)
(* Files on disk are modelled as values: absent, unparsable, or a JSON     *)
(* value.  JSON values are tagged records; objects are functions from key  *)
(* to value; strings are sequences of one-character strings so that the    *)
(* character-wise sanitisation and the format! of identifiers are computed *)
(* as the code computes them.                                              *)
(***************************************************************************)
EXTENDS Integers, Sequences, FiniteSets, TLC

VARIABLES
    droidSettings,  \* ~/.factory/settings.json
    droidPrev,      \* the same file before the last Droid operation
    droidOp,        \* the last Droid operation and its outcome
    live,           \* the live files of Claude, Codex and Gemini
    current,        \* the effective current provider of each app type
    sync,           \* where a running sync_current_to_live is, and what it did
    snap,           \* a LiveSnapshot, the files when it was taken, and the steps since
    droidConfig,    \* ~/.factory/config.json
    readOp,         \* the last read_live_settings: its app type, the files, its result
    writer,         \* a write_live_snapshot in progress, file operation by file operation
    observed,       \* what another process last read from a live file
    mcpFile,        \* ~/.factory/mcp.json
    servers,        \* config.mcp.servers: the MCP servers this program knows
    mcpOp,          \* the last operation on mcp.json or on the servers, and its outcome
    store,          \* state.db: the providers of each app type and the current one
    importOp        \* the last import_default_config: its arguments, the store before, its result

droidVars == <<droidSettings, droidPrev, droidOp>>

\* What the operations on settings.json and on the three apps' live files
\* leave alone
readVars == <<droidConfig, readOp>>
atomVars == <<writer, observed>>
mcpVars == <<mcpFile, servers, mcpOp>>
importVars == <<store, importOp>>
restVars == <<readVars, atomVars, mcpVars, importVars>>

vars == <<droidSettings, droidPrev, droidOp, live, current, sync, snap, droidConfig, readOp,
          writer, observed, mcpFile, servers, mcpOp, store, importOp>>

(***************************************************************************)
(* Bounds of the model.                                                    *)
(***************************************************************************)
\* write_droid_live appends a new entry only while the allocated index stays
\* within this cap (the code's index is an i64 that grows without bound).
MaxIndex == 3

(***************************************************************************)
(* serde_json::Value                                                       *)
(***************************************************************************)
None == [t |-> "none"]
JNull == [t |-> "null"]
JBool(b) == [t |-> "bool", b |-> b]
JInt(n) == [t |-> "int", n |-> n]
JStr(s) == [t |-> "str", s |-> s]
JArr(a) == [t |-> "arr", a |-> a]
JObj(o) == [t |-> "obj", o |-> o]

EmptyMap == [k \in {} |-> JNull]

\* serde_json::Map::insert / remove / get
MapInsert(o, k, v) == [j \in DOMAIN o \cup {k} |-> IF j = k THEN v ELSE o[j]]
MapRemove(o, k) == [j \in DOMAIN o \ {k} |-> o[j]]
MapGet(o, k) == IF k \in DOMAIN o THEN o[k] ELSE None

\* Value::get(key): None unless the value is an object holding the key
Get(v, k) == IF v.t = "obj" THEN MapGet(v.o, k) ELSE None

\* Option<&Value> -> Option<..>: as_str, as_i64, as_bool, and Option::or_else
AsStr(v) == IF v.t = "str" THEN v ELSE None
AsI64(v) == IF v.t = "int" THEN v ELSE None
AsBool(v) == IF v.t = "bool" THEN v ELSE None
OrElse(a, b) == IF a # None THEN a ELSE b

(***************************************************************************)
(* Strings: sequences of characters.                                       *)
(***************************************************************************)
Letters == {"a", "b", "c", "d", "e", "f", "g", "h", "i", "j", "k", "l", "m",
            "n", "o", "p", "q", "r", "s", "t", "u", "v", "w", "x", "y", "z"}
DigitChars == <<"0", "1", "2", "3", "4", "5", "6", "7", "8", "9">>

\* char::is_alphanumeric on the characters the model uses
IsAlphanumeric(c) == c \in Letters \/ \E i \in 1..10 : DigitChars[i] = c

\* Display of an i64 in decimal, as format!("{}") prints it
RECURSIVE NatDigits(_)
NatDigits(n) == IF n < 10 THEN <<DigitChars[n + 1]>>
                ELSE NatDigits(n \div 10) \o <<DigitChars[(n % 10) + 1]>>
FormatI64(n) == IF n < 0 THEN <<"-">> \o NatDigits(-n) ELSE NatDigits(n)

CustomPrefix == <<"c", "u", "s", "t", "o", "m", ":">>
DefaultModelName == <<"c", "l", "a", "u", "d", "e", "-", "s", "o", "n", "n", "e", "t",
                      "-", "4", "-", "5", "-", "2", "0", "2", "5", "0", "9", "2", "9">>
DefaultProviderKind == <<"a", "n", "t", "h", "r", "o", "p", "i", "c">>
DefaultMaxOutputTokens == 131072

(***************************************************************************)
(* Results                                                                 *)
(***************************************************************************)
Ok(v) == [ok |-> TRUE, v |-> v]
Err(e) == [ok |-> FALSE, err |-> e]

(***************************************************************************)
(* Files                                                                   *)
(***************************************************************************)
Absent == [st |-> "absent"]
Malformed == [st |-> "malformed"]
File(v) == [st |-> "json", v |-> v]

\* crate::config::read_json_file: the parsed value, or an error for a file
\* that cannot be read or parsed
ReadJsonFile(f) == IF f.st = "json" THEN Ok(f.v) ELSE Err("json")

\* droid_config::read_droid_settings
ReadDroidSettings(f) == IF f.st = "absent" THEN Ok(JObj(EmptyMap)) ELSE ReadJsonFile(f)

(***************************************************************************)
(* build_droid_settings_model                                              *)
(***************************************************************************)
\* provider_name.chars().map(..).collect(): every character other than an
\* alphanumeric, '-' and '_' becomes '-'
CleanName(provider_name) ==
    [i \in 1..Len(provider_name) |->
        IF IsAlphanumeric(provider_name[i]) \/ provider_name[i] = "-" \/ provider_name[i] = "_"
        THEN provider_name[i] ELSE "-"]

\* format!("custom:{}-{}", clean_name, index)
FormatId(provider_name, index) ==
    CustomPrefix \o CleanName(provider_name) \o <<"-">> \o FormatI64(index)

\* Option::unwrap_or
UnwrapOr(opt, d) == IF opt # None THEN opt ELSE d

\* Mutant of BuildDroidSettingsModel: settings that are not an object count
\* as an empty object
BuildDroidSettingsModelLenient(settings, provider_name, index) ==
    LET obj == IF settings.t = "obj" THEN settings.o ELSE EmptyMap
        api_key == UnwrapOr(AsStr(OrElse(MapGet(obj, "apiKey"), MapGet(obj, "api_key"))),
                            JStr(<<>>))
        base_url == UnwrapOr(AsStr(OrElse(MapGet(obj, "baseUrl"), MapGet(obj, "base_url"))),
                             JStr(<<>>))
        model == UnwrapOr(AsStr(MapGet(obj, "model")), JStr(DefaultModelName))
        provider_type == UnwrapOr(AsStr(MapGet(obj, "provider")), JStr(DefaultProviderKind))
        max_tokens == UnwrapOr(AsI64(OrElse(MapGet(obj, "maxOutputTokens"),
                                            MapGet(obj, "max_tokens"))),
                               JInt(DefaultMaxOutputTokens))
        no_image_support == UnwrapOr(AsBool(MapGet(obj, "noImageSupport")), JBool(FALSE))
    IN Ok(JObj([model |-> model,
                id |-> JStr(FormatId(provider_name, index)),
                index |-> JInt(index),
                baseUrl |-> base_url,
                apiKey |-> api_key,
                displayName |-> JStr(provider_name),
                maxOutputTokens |-> max_tokens,
                noImageSupport |-> no_image_support,
                provider |-> provider_type]))

BuildDroidSettingsModel(settings, provider_name, index) ==
    IF settings.t # "obj" THEN Err("config")
    ELSE
    LET obj == settings.o
        api_key == UnwrapOr(AsStr(OrElse(MapGet(obj, "apiKey"), MapGet(obj, "api_key"))),
                            JStr(<<>>))
        base_url == UnwrapOr(AsStr(OrElse(MapGet(obj, "baseUrl"), MapGet(obj, "base_url"))),
                             JStr(<<>>))
        model == UnwrapOr(AsStr(MapGet(obj, "model")), JStr(DefaultModelName))
        provider_type == UnwrapOr(AsStr(MapGet(obj, "provider")), JStr(DefaultProviderKind))
        max_tokens == UnwrapOr(AsI64(OrElse(MapGet(obj, "maxOutputTokens"),
                                            MapGet(obj, "max_tokens"))),
                               JInt(DefaultMaxOutputTokens))
        no_image_support == UnwrapOr(AsBool(MapGet(obj, "noImageSupport")), JBool(FALSE))
    IN Ok(JObj([model |-> model,
                id |-> JStr(FormatId(provider_name, index)),
                index |-> JInt(index),
                baseUrl |-> base_url,
                apiKey |-> api_key,
                displayName |-> JStr(provider_name),
                maxOutputTokens |-> max_tokens,
                noImageSupport |-> no_image_support,
                provider |-> provider_type]))

(***************************************************************************)
(* write_droid_live                                                        *)
(***************************************************************************)
SetMax(S) == CHOOSE m \in S : \A x \in S : x <= m

\* Mutant of NextIndex: the array length taken for the next index
NextIndexByLen(custom_models) == Len(custom_models)

\* custom_models.iter().filter_map(index as i64).max().map(|m| m + 1).unwrap_or(0)
NextIndex(custom_models) ==
    LET indexes == {Get(custom_models[i], "index").n :
                      i \in {j \in 1..Len(custom_models) :
                               AsI64(Get(custom_models[j], "index")) # None}}
    IN IF indexes = {} THEN 0 ELSE SetMax(indexes) + 1

\* Mutant of Position: the entries are matched on a key they do not carry
PositionByWrongKey(custom_models, display_name) ==
    LET hits == {i \in 1..Len(custom_models) :
                   AsStr(Get(custom_models[i], "display_name")) = JStr(display_name)}
    IN IF hits = {} THEN 0 ELSE CHOOSE i \in hits : \A j \in hits : i <= j

\* Mutant of Position: with no match, the last slot is taken instead of none
PositionOrLast(custom_models, display_name) ==
    LET hits == {i \in 1..Len(custom_models) :
                   AsStr(Get(custom_models[i], "displayName")) = JStr(display_name)}
    IN IF hits = {} THEN Len(custom_models) ELSE CHOOSE i \in hits : \A j \in hits : i <= j

\* custom_models.iter().position(displayName == display_name): 0 when none,
\* otherwise the 1-based place of the first match
Position(custom_models, display_name) ==
    LET hits == {i \in 1..Len(custom_models) :
                   AsStr(Get(custom_models[i], "displayName")) = JStr(display_name)}
    IN IF hits = {} THEN 0 ELSE CHOOSE i \in hits : \A j \in hits : i <= j

\* Mutant of UpdatedModel: the old index is kept, the old id is not
UpdatedModelNewId(custom_model, old, idx) ==
    JObj(MapInsert(custom_model.o, "index", UnwrapOr(AsI64(Get(old, "index")), JInt(idx - 1))))

\* Mutant of UpdatedModel: the old id is kept, the old index is not
UpdatedModelNewIndex(custom_model, old, idx) ==
    LET old_id == AsStr(Get(old, "id"))
    IN JObj(IF old_id # None THEN MapInsert(custom_model.o, "id", old_id) ELSE custom_model.o)

\* The entry stored for an existing display name: the old index (the array
\* position when the old entry has no integer index) and the old id (the
\* minted one when the old entry has no string id) are kept.
UpdatedModel(custom_model, old, idx) ==
    LET old_index == UnwrapOr(AsI64(Get(old, "index")), JInt(idx - 1))
        old_id == AsStr(Get(old, "id"))
        with_index == MapInsert(custom_model.o, "index", old_index)
    IN JObj(IF old_id # None THEN MapInsert(with_index, "id", old_id) ELSE with_index)

\* if !final_model_id.is_empty() { sessionDefaultSettings.entry().or_insert({});
\*   if it is an object, insert model }
SetSessionModel(settings_obj, final_model_id) ==
    IF final_model_id = <<>> THEN settings_obj
    ELSE LET session_settings == IF "sessionDefaultSettings" \in DOMAIN settings_obj
                                 THEN settings_obj["sessionDefaultSettings"]
                                 ELSE JObj(EmptyMap)
         IN MapInsert(settings_obj, "sessionDefaultSettings",
                      IF session_settings.t = "obj"
                      THEN JObj(MapInsert(session_settings.o, "model", JStr(final_model_id)))
                      ELSE session_settings)

\* What a failed read of the existing settings.json becomes
OnReadError == Ok(JObj(EmptyMap))

\* The whole function: the outcome (res), the file afterwards, and whether
\* write_droid_settings replaced the file.  io_ok: the final write succeeds.
WriteDroidLive(f, provider, io_ok) ==
    LET read == ReadDroidSettings(f)
        settings == IF read.ok THEN read.v ELSE OnReadError.v
        fail(e) == [res |-> e, file |-> f, wrote |-> FALSE]
    IN
    IF settings.t # "obj" THEN fail("config")
    ELSE
    LET obj0 == IF "customModels" \in DOMAIN settings.o THEN settings.o
                ELSE MapInsert(settings.o, "customModels", JArr(<<>>))
    IN
    IF obj0["customModels"].t # "arr" THEN fail("config")
    ELSE
    LET custom_models == obj0["customModels"].a
        next_index == NextIndex(custom_models)
        built == BuildDroidSettingsModel(provider.settings, provider.name, next_index)
    IN
    IF ~built.ok THEN fail("config")
    ELSE
    LET custom_model == built.v
        display_name == UnwrapOr(AsStr(Get(custom_model, "displayName")), JStr(<<>>)).s
        idx == Position(custom_models, display_name)
        stored == IF idx # 0 THEN UpdatedModel(custom_model, custom_models[idx], idx)
                  ELSE custom_model
        final_model_id == UnwrapOr(AsStr(Get(stored, "id")), JStr(<<>>)).s
        models2 == IF idx # 0 THEN [custom_models EXCEPT ![idx] = stored]
                   ELSE Append(custom_models, stored)
        obj1 == MapInsert(obj0, "customModels", JArr(models2))
        obj2 == SetSessionModel(obj1, final_model_id)
    IN
    IF io_ok THEN [res |-> "ok", file |-> File(JObj(obj2)), wrote |-> TRUE]
    ELSE fail("io")

(***************************************************************************)
(* remove_droid_custom_model                                               *)
(***************************************************************************)
\* Mutant of Retain: the array is cut at the first match
RECURSIVE RetainUntil(_, _)
RetainUntil(custom_models, provider_name) ==
    IF custom_models = <<>> THEN <<>>
    ELSE LET m == Head(custom_models)
         IN IF AsStr(Get(m, "displayName")) # JStr(provider_name)
            THEN <<m>> \o RetainUntil(Tail(custom_models), provider_name)
            ELSE <<>>

\* Vec::retain: the entries whose displayName is not provider_name, in order
RECURSIVE Retain(_, _)
Retain(custom_models, provider_name) ==
    IF custom_models = <<>> THEN <<>>
    ELSE LET m == Head(custom_models)
             rest == Retain(Tail(custom_models), provider_name)
         IN IF AsStr(Get(m, "displayName")) # JStr(provider_name) THEN <<m>> \o rest ELSE rest

RemoveDroidCustomModel(f, provider_name, io_ok) ==
    LET read == ReadDroidSettings(f)
        same(e) == [res |-> e, file |-> f, wrote |-> FALSE]
    IN
    IF ~read.ok THEN same("json")
    ELSE IF read.v.t # "obj" THEN same("ok")
    ELSE IF Get(read.v, "customModels").t # "arr" THEN same("ok")
    ELSE
    LET custom_models == read.v.o["customModels"].a
        kept == Retain(custom_models, provider_name)
    IN
    IF Len(kept) < Len(custom_models)
    THEN IF io_ok
         THEN [res |-> "ok", wrote |-> TRUE,
               file |-> File(JObj(MapInsert(read.v.o, "customModels", JArr(kept))))]
         ELSE same("io")
    ELSE same("ok")

(***************************************************************************)
(* droid_config::cleanup_settings_for_new_config                           *)
(***************************************************************************)
\* Mutant of CleanupSettingsForNewConfig: sessionDefaultSettings.model is
\* found but stays in the document that is written
CleanupSettingsKeepsPointer(f, io_ok) ==
    LET same(e) == [res |-> e, file |-> f, wrote |-> FALSE]
    IN
    IF f.st = "absent" THEN same("ok")
    ELSE
    LET read == ReadDroidSettings(f)
    IN
    IF ~read.ok THEN same("json")
    ELSE IF read.v.t # "obj" THEN same("ok")
    ELSE
    LET obj == read.v.o
        empty_models == Get(read.v, "customModels") = JArr(<<>>)
        obj1 == IF empty_models THEN MapRemove(obj, "customModels") ELSE obj
        session == MapGet(obj1, "sessionDefaultSettings")
        has_model == session.t = "obj" /\ "model" \in DOMAIN session.o
        obj2 == obj1
        modified == empty_models \/ has_model
    IN
    IF modified
    THEN IF io_ok THEN [res |-> "ok", file |-> File(JObj(obj2)), wrote |-> TRUE]
         ELSE same("io")
    ELSE same("ok")

CleanupSettingsForNewConfig(f, io_ok) ==
    LET same(e) == [res |-> e, file |-> f, wrote |-> FALSE]
    IN
    IF f.st = "absent" THEN same("ok")
    ELSE
    LET read == ReadDroidSettings(f)
    IN
    IF ~read.ok THEN same("json")
    ELSE IF read.v.t # "obj" THEN same("ok")
    ELSE
    LET obj == read.v.o
        empty_models == Get(read.v, "customModels") = JArr(<<>>)
        obj1 == IF empty_models THEN MapRemove(obj, "customModels") ELSE obj
        session == MapGet(obj1, "sessionDefaultSettings")
        has_model == session.t = "obj" /\ "model" \in DOMAIN session.o
        obj2 == IF has_model
                THEN MapInsert(obj1, "sessionDefaultSettings",
                               JObj(MapRemove(session.o, "model")))
                ELSE obj1
        modified == empty_models \/ has_model
    IN
    IF modified
    THEN IF io_ok THEN [res |-> "ok", file |-> File(JObj(obj2)), wrote |-> TRUE]
         ELSE same("io")
    ELSE same("ok")

(***************************************************************************)
(* Live files of Claude, Codex and Gemini                                  *)
(***************************************************************************)
\* A text file (Codex config.toml) and an env file (Gemini .env)
Text(s) == [st |-> "text", s |-> s]
Env(m) == [st |-> "env", m |-> m]

\* crate::config::write_json_file, write_text_file, std::fs::write,
\* write_gemini_env_atomic, delete_file: each either takes effect or fails
\* and leaves the file as it was.  io is the number of the write of the
\* running operation that fails (0: none does); n numbers this write.
WriteFails(io, n) == io = n

\* The live files are a record: claude (settings.json), codexAuth (auth.json),
\* codexConfig (config.toml), geminiEnv (.env), geminiSettings (settings.json)
Put(lv, field, f) == [lv EXCEPT ![field] = f]

(***************************************************************************)
(* Collaborators of write_gemini_live (gemini_config, gemini_auth)         *)
(***************************************************************************)
GoogleOfficial == "GoogleOfficial"
Packycode == "Packycode"
Generic == "Generic"

\* detect_gemini_auth_type: the provider record carries the outcome
DetectGeminiAuthType(provider) == provider.kind

\* json_to_env: the string-valued entries of settings.env
JsonToEnv(settings) ==
    LET env == Get(settings, "env")
    IN IF env.t = "obj"
       THEN Ok([k \in {j \in DOMAIN env.o : env.o[j].t = "str"} |-> env.o[k]])
       ELSE Ok(EmptyMap)

\* validate_gemini_settings_strict: a non-empty endpoint and key
ValidateGeminiSettingsStrict(settings) ==
    LET env == Get(settings, "env")
        key == AsStr(Get(env, "GEMINI_API_KEY"))
        url == AsStr(Get(env, "GOOGLE_GEMINI_BASE_URL"))
    IN key # None /\ key.s # <<>> /\ url # None /\ url.s # <<>>

OAuthPersonal == JStr(<<"o", "a", "u", "t", "h">>)
GeminiApiKey == JStr(<<"a", "p", "i", "k", "e", "y">>)

\* ensure_google_oauth_security_flag / write_packycode_settings: set
\* security.auth.selectedType in the settings document, keeping the rest
SetSelectedType(doc, selected) ==
    LET root == IF doc.t = "obj" THEN doc.o ELSE EmptyMap
        security == IF Get(doc, "security").t = "obj" THEN root["security"].o ELSE EmptyMap
        auth == IF MapGet(security, "auth").t = "obj" THEN security["auth"].o ELSE EmptyMap
    IN JObj(MapInsert(root, "security",
              JObj(MapInsert(security, "auth",
                     JObj(MapInsert(auth, "selectedType", selected))))))

\* The settings file after the flag has been written; an error for a file
\* that cannot be parsed
WriteSelectedType(f, selected) ==
    IF f.st = "absent" THEN Ok(File(SetSelectedType(JObj(EmptyMap), selected)))
    ELSE IF f.st = "json" THEN Ok(File(SetSelectedType(f.v, selected)))
    ELSE Err("json")

(***************************************************************************)
(* write_gemini_live                                                       *)
(***************************************************************************)
\* for (k, v) in config_obj { merged_obj.insert(k, v) }
\* Mutant of MergeConfig: a key the existing document has keeps its value
MergeConfigKeepOld(merged, config_value) ==
    IF merged.t = "obj" /\ config_value.t = "obj"
    THEN JObj([k \in DOMAIN merged.o \cup DOMAIN config_value.o |->
                 IF k \in DOMAIN merged.o THEN merged.o[k] ELSE config_value.o[k]])
    ELSE merged

MergeConfig(merged, config_value) ==
    IF merged.t = "obj" /\ config_value.t = "obj"
    THEN JObj([k \in DOMAIN merged.o \cup DOMAIN config_value.o |->
                 IF k \in DOMAIN config_value.o THEN config_value.o[k] ELSE merged.o[k]])
    ELSE merged

\* The existing settings a config object is merged into
MergeBase(f) ==
    IF f.st = "absent" THEN JObj(EmptyMap)
    ELSE IF ReadJsonFile(f).ok THEN ReadJsonFile(f).v ELSE JObj(EmptyMap)

\* Mutant of PreserveExisting: an empty document is written in its place
PreserveExistingEmpty(existing) == JObj(EmptyMap)

\* if config_to_write.is_none() && settings_path.exists()
\*     { config_to_write = Some(read_json_file(&settings_path)?) }
\* (the read has succeeded where this is used)
PreserveExisting(existing) ==
    IF existing.st # "absent" THEN ReadJsonFile(existing).v ELSE None

\* Mutant of NeedsStrictValidation: no provider is validated before the write
NeedsStrictValidationNever(auth_type) == FALSE

\* match auth_type: the Packycode and Generic arms call
\* validate_gemini_settings_strict(..)? before write_gemini_env_atomic, the
\* GoogleOfficial arm does not
NeedsStrictValidation(auth_type) == auth_type \in {Packycode, Generic}

\* Mutant of InvalidConfig: any config value is let through
InvalidConfigNever(config_value) == FALSE

\* if let Some(config_value) = .. { if config_value.is_object() {..}
\*     else if !config_value.is_null() { return Err(..) } }
InvalidConfig(config_value) ==
    config_value # None /\ config_value.t # "obj" /\ config_value.t # "null"

WriteGeminiLive(lv, provider, io) ==
    LET auth_type == DetectGeminiAuthType(provider)
        env_map == JsonToEnv(provider.settings)
        config_value == Get(provider.settings, "config")
        existing == lv.geminiSettings
        fail(e, l) == [res |-> e, live |-> l]
    IN
    IF ~env_map.ok THEN fail("config", lv)
    ELSE IF InvalidConfig(config_value)
    THEN fail("validation", lv)
    ELSE IF (config_value = None \/ config_value.t = "null")
            /\ existing.st # "absent" /\ ~ReadJsonFile(existing).ok
    THEN fail("json", lv)
    ELSE
    LET config_to_write ==
            IF config_value # None /\ config_value.t = "obj"
            THEN MergeConfig(MergeBase(existing), config_value)
            ELSE PreserveExisting(existing)
        env_written == IF auth_type = GoogleOfficial THEN EmptyMap ELSE env_map.v
    IN
    IF NeedsStrictValidation(auth_type) /\ ~ValidateGeminiSettingsStrict(provider.settings)
    THEN fail("validation", lv)
    ELSE IF WriteFails(io, 1) THEN fail("io", lv)
    ELSE
    LET lv1 == Put(lv, "geminiEnv", Env(env_written))
    IN
    IF config_to_write # None /\ WriteFails(io, 2) THEN fail("io", lv1)
    ELSE
    LET lv2 == IF config_to_write # None THEN Put(lv1, "geminiSettings", File(config_to_write))
               ELSE lv1
        flagged == WriteSelectedType(lv2.geminiSettings,
                                     IF auth_type = GoogleOfficial THEN OAuthPersonal
                                     ELSE GeminiApiKey)
    IN
    IF ~flagged.ok THEN fail("json", lv2)
    ELSE IF WriteFails(io, 3) THEN fail("io", lv2)
    ELSE [res |-> "ok", live |-> Put(lv2, "geminiSettings", flagged.v)]

(***************************************************************************)
(* write_live_snapshot                                                     *)
(***************************************************************************)
Claude == "claude"
Codex == "codex"
Gemini == "gemini"
Droid == "droid"
AppTypes == {Claude, Codex, Gemini, Droid}

\* Mutant of CodexShapeError: a missing auth is not noticed
CodexShapeErrorAuthUnchecked(settings) ==
    settings.t # "obj" \/ AsStr(Get(settings, "config")) = None

\* The three ok_or_else(..)? of the Codex arm: settings_config is an object,
\* has "auth", has a "config" that is a string
CodexShapeError(settings) ==
    \/ settings.t # "obj"
    \/ Get(settings, "auth") = None
    \/ AsStr(Get(settings, "config")) = None

\* The Claude, Codex and Gemini arms; the Droid arm is write_droid_live
WriteLiveSnapshot(lv, app_type, provider, io) ==
    LET fail(e, l) == [res |-> e, live |-> l]
    IN
    IF app_type = Claude
    THEN IF WriteFails(io, 1) THEN fail("io", lv)
         ELSE [res |-> "ok", live |-> Put(lv, "claude", File(provider.settings))]
    ELSE IF app_type = Codex
    THEN IF CodexShapeError(provider.settings) THEN fail("config", lv)
         ELSE IF WriteFails(io, 1) THEN fail("io", lv)
         ELSE LET lv1 == Put(lv, "codexAuth", File(Get(provider.settings, "auth")))
              IN IF WriteFails(io, 2) THEN fail("io", lv1)
                 ELSE [res |-> "ok",
                       live |-> Put(lv1, "codexConfig",
                                    Text(Get(provider.settings, "config").s))]
    ELSE WriteGeminiLive(lv, provider, io)


(***************************************************************************)
(* Inputs of the Droid operations                                          *)
(***************************************************************************)
Acme == <<"a", "c", "m", "e">>
MyDotX == <<"m", "y", ".", "x">>
MySpaceX == <<"m", "y", " ", "x">>
\* Two names the operations are called with; both sanitise to my-x.  Acme
\* names an entry that is only ever found in the file.
ProviderNames == {MyDotX, MySpaceX}

K1 == <<"k", "1">>
K2 == <<"k", "2">>
UrlX == <<"h", "t", "t", "p", "s", ":", "/", "/", "x">>
UrlY == <<"h", "t", "t", "p", "s", ":", "/", "/", "y">>
M1 == <<"m", "1">>
OpenAi == <<"o", "p", "e", "n", "a", "i">>

\* camelCase settings as in the documented scenario, with the snake_case
\* spelling of the key beside the camelCase one
SettingsCamel == JObj([apiKey |-> JStr(K1), api_key |-> JStr(K2), baseUrl |-> JStr(UrlX),
                       model |-> JStr(M1)])
\* snake_case spellings, a non-string apiKey beside them, every optional field
SettingsSnake == JObj([apiKey |-> JInt(5), api_key |-> JStr(K2), base_url |-> JStr(UrlY),
                       max_tokens |-> JInt(64), noImageSupport |-> JBool(TRUE),
                       provider |-> JStr(OpenAi)])
SettingsNotObject == JArr(<<>>)
ProviderSettings == {SettingsCamel, SettingsSnake, SettingsNotObject}

Providers == [name : ProviderNames, settings : ProviderSettings]

(***************************************************************************)
(* Documents settings.json may hold before the first operation             *)
(***************************************************************************)
Dark == JStr(<<"d", "a", "r", "k">>)
OldPointer == JStr(<<"g", "p", "t">>)

\* an entry another tool wrote: no id, no index
LegacyEntry == JObj([displayName |-> JStr(MyDotX), apiKey |-> JStr(<<"k", "0">>)])
\* an entry with an empty id and index 2
EmptyIdEntry == JObj([displayName |-> JStr(MySpaceX), id |-> JStr(<<>>), index |-> JInt(2),
                      apiKey |-> JStr(<<"k", "9">>)])
\* an entry as this program writes it
OwnEntry == BuildDroidSettingsModel(SettingsCamel, MySpaceX, 1).v
AcmeEntry == BuildDroidSettingsModel(SettingsSnake, Acme, 0).v

DocEmpty == JObj(EmptyMap)
DocRootArray == JArr(<<>>)
DocModelsNotArray == JObj([customModels |-> JStr(<<"x">>), theme |-> Dark])
DocNoModels == JObj([customModels |-> JArr(<<>>),
                     sessionDefaultSettings |-> JObj([model |-> OldPointer,
                                                      autonomy |-> JStr(<<"h">>)]),
                     theme |-> Dark])
DocSessionNotObject == JObj([customModels |-> JArr(<<AcmeEntry, OwnEntry>>),
                             sessionDefaultSettings |-> JNull,
                             theme |-> Dark])
DocLegacy == JObj([customModels |-> JArr(<<LegacyEntry, JStr(<<"x">>), EmptyIdEntry>>),
                   sessionDefaultSettings |-> JObj([model |-> OldPointer]),
                   theme |-> Dark])

InitialDroidFiles ==
    {Absent, Malformed, File(DocEmpty), File(DocRootArray), File(DocModelsNotArray),
     File(DocNoModels), File(DocSessionNotObject), File(DocLegacy)}

(***************************************************************************)
(* Providers and live files of Claude, Codex and Gemini                    *)
(***************************************************************************)
NoCurrent == [name |-> <<>>]

ClaudeKeyOne == [name |-> <<"c", "1">>, kind |-> Generic,
                 settings |-> JObj([env |-> JObj([ANTHROPIC_AUTH_TOKEN |-> JStr(K1)])])]
ClaudeKeyTwo == [name |-> <<"c", "2">>, kind |-> Generic,
                 settings |-> JObj([env |-> JObj([ANTHROPIC_AUTH_TOKEN |-> JStr(K2)])])]

TomlOne == <<"m", "o", "d", "e", "l", "=", "1">>
TomlOld == <<"m", "o", "d", "e", "l", "=", "0">>
CodexGood == [name |-> <<"x", "1">>, kind |-> Generic,
              settings |-> JObj([auth |-> JObj([OPENAI_API_KEY |-> JStr(K1)]),
                                 config |-> JStr(TomlOne)])]
CodexNoConfig == [name |-> <<"x", "2">>, kind |-> Generic,
                  settings |-> JObj([auth |-> JObj([OPENAI_API_KEY |-> JStr(K2)])])]
CodexNotObject == [name |-> <<"x", "3">>, kind |-> Generic, settings |-> JStr(TomlOne)]
CodexNoAuth == [name |-> <<"x", "4">>, kind |-> Generic,
                settings |-> JObj([config |-> JStr(TomlOne)])]
CodexConfigNotString == [name |-> <<"x", "5">>, kind |-> Generic,
                         settings |-> JObj([auth |-> JObj([OPENAI_API_KEY |-> JStr(K1)]),
                                            config |-> JObj([model |-> JInt(1)])])]

GeminiOAuth == [name |-> <<"g", "1">>, kind |-> GoogleOfficial,
                settings |-> JObj([env |-> JObj([GEMINI_API_KEY |-> JStr(K1)]),
                                   config |-> JNull])]
GeminiGeneric == [name |-> <<"g", "2">>, kind |-> Generic,
                  settings |-> JObj([env |-> JObj([GEMINI_API_KEY |-> JStr(K2),
                                                   GOOGLE_GEMINI_BASE_URL |-> JStr(UrlX)]),
                                     config |-> JObj([theme |-> Dark])])]
GeminiNoKey == [name |-> <<"g", "3">>, kind |-> Packycode,
                settings |-> JObj([env |-> JObj([GEMINI_API_KEY |-> JStr(<<>>),
                                                 GOOGLE_GEMINI_BASE_URL |-> JStr(UrlY)])])]
GeminiBadConfig == [name |-> <<"g", "4">>, kind |-> Generic,
                    settings |-> JObj([env |-> JObj([GEMINI_API_KEY |-> JStr(K2),
                                                     GOOGLE_GEMINI_BASE_URL |-> JStr(UrlX)]),
                                       config |-> JStr(<<"x">>)])]
\* an API-key provider whose settings have no config key
GeminiNoConfig == [name |-> <<"g", "5">>, kind |-> Packycode,
                   settings |-> JObj([env |-> JObj([GEMINI_API_KEY |-> JStr(K1),
                                                    GOOGLE_GEMINI_BASE_URL |-> JStr(UrlY)])])]
DroidCurrent == [name |-> MyDotX, kind |-> Generic, settings |-> SettingsCamel]

ProvidersOf(app_type) ==
    IF app_type = Claude THEN {ClaudeKeyOne, ClaudeKeyTwo}
    ELSE IF app_type = Codex THEN {CodexGood, CodexNoConfig, CodexNotObject, CodexNoAuth,
                                     CodexConfigNotString}
    ELSE IF app_type = Gemini THEN {GeminiOAuth, GeminiGeneric, GeminiNoKey, GeminiBadConfig,
                                      GeminiNoConfig}
    ELSE {DroidCurrent}

\* No live file exists
NoLiveFiles == [claude |-> Absent, codexAuth |-> Absent, codexConfig |-> Absent,
                geminiEnv |-> Absent, geminiSettings |-> Absent]

ClaudeOld == JObj([env |-> JObj([ANTHROPIC_AUTH_TOKEN |-> JStr(<<"k", "0">>)]),
                   permissions |-> JObj(EmptyMap)])
CodexAuthOld == JObj([OPENAI_API_KEY |-> JStr(<<"k", "0">>)])
GeminiEnvOld == [GEMINI_API_KEY |-> JStr(<<"k", "0">>)]
GeminiSettingsOld == JObj([mcpServers |-> JObj([fs |-> JObj(EmptyMap)]),
                           theme |-> JStr(<<"l", "i", "g", "h", "t">>)])

\* a settings document that already has a security section with fields beside
\* the selection flag
GeminiSettingsSecured ==
    JObj([mcpServers |-> JObj([fs |-> JObj(EmptyMap)]),
          security |-> JObj([auth |-> JObj([selectedType |-> JStr(<<"v">>),
                                            enforcedType |-> JStr(<<"e">>)]),
                             folderTrust |-> JBool(TRUE)])])

\* The live files before the first operation
InitialLiveFiles ==
    [claude : {Absent, Malformed, File(ClaudeOld)},
     codexAuth : {Absent, File(CodexAuthOld)},
     codexConfig : {Absent, Text(TomlOld)},
     geminiEnv : {Absent, Env(GeminiEnvOld)},
     geminiSettings : {Absent, Malformed, File(GeminiSettingsOld),
                       File(GeminiSettingsSecured)}]

(***************************************************************************)
(* LiveSnapshot: capture and restore                                       *)
(***************************************************************************)
Some(x) == [t |-> "some", v |-> x]
SnapshotApps == {Claude, Codex, Gemini}

\* Option<Value> of a JSON file: None when absent; no snapshot is made of a
\* file that cannot be parsed
CaptureJson(f) == IF f.st = "absent" THEN Ok(None)
                  ELSE IF f.st = "json" THEN Ok(Some(f.v)) ELSE Err("json")

\* capture: the current live state of an app type as a tagged snapshot
Capture(lv, app_type) ==
    IF app_type = Claude
    THEN IF CaptureJson(lv.claude).ok
         THEN Ok([variant |-> Claude, settings |-> CaptureJson(lv.claude).v])
         ELSE Err("json")
    ELSE IF app_type = Codex
    THEN IF CaptureJson(lv.codexAuth).ok
         THEN Ok([variant |-> Codex, auth |-> CaptureJson(lv.codexAuth).v,
                  config |-> IF lv.codexConfig.st = "absent" THEN None
                             ELSE Some(lv.codexConfig.s)])
         ELSE Err("json")
    ELSE IF CaptureJson(lv.geminiSettings).ok
         THEN Ok([variant |-> Gemini,
                  env |-> IF lv.geminiEnv.st = "absent" THEN None ELSE Some(lv.geminiEnv.m),
                  config |-> CaptureJson(lv.geminiSettings).v])
         ELSE Err("json")

\* Mutant of RestoreFile: a file that was absent at capture is left in place
RestoreFileNoDelete(f, captured, written, io, n) ==
    IF captured # None
    THEN IF WriteFails(io, n) THEN Err("io") ELSE Ok(written)
    ELSE Ok(f)

\* if let Some(value) = captured { write(path, value)? }
\* else if path.exists() { delete_file(path)? }
\* The file afterwards; the step fails when it touches the file and io = n.
RestoreFile(f, captured, written, io, n) ==
    IF captured # None
    THEN IF WriteFails(io, n) THEN Err("io") ELSE Ok(written)
    ELSE IF f.st # "absent"
         THEN IF WriteFails(io, n) THEN Err("io") ELSE Ok(Absent)
         ELSE Ok(f)

\* Restoring two files in order: the second is not touched when the first fails
RestoreTwo(lv, first, r1, second, r2) ==
    IF ~r1.ok THEN [res |-> "io", live |-> lv]
    ELSE IF ~r2.ok THEN [res |-> "io", live |-> Put(lv, first, r1.v)]
    ELSE [res |-> "ok", live |-> Put(Put(lv, first, r1.v), second, r2.v)]

\* LiveSnapshot::restore
Restore(lv, snapshot, io) ==
    IF snapshot.variant = Claude
    THEN LET r == RestoreFile(lv.claude, snapshot.settings,
                              File(snapshot.settings.v), io, 1)
         IN IF r.ok THEN [res |-> "ok", live |-> Put(lv, "claude", r.v)]
            ELSE [res |-> "io", live |-> lv]
    ELSE IF snapshot.variant = Codex
    THEN RestoreTwo(lv,
           "codexAuth", RestoreFile(lv.codexAuth, snapshot.auth, File(snapshot.auth.v), io, 1),
           "codexConfig", RestoreFile(lv.codexConfig, snapshot.config,
                                      Text(snapshot.config.v), io, 2))
    ELSE RestoreTwo(lv,
           "geminiEnv", RestoreFile(lv.geminiEnv, snapshot.env, Env(snapshot.env.v), io, 1),
           "geminiSettings", RestoreFile(lv.geminiSettings, snapshot.config,
                                         File(snapshot.config.v), io, 2))

\* snap: pc is "start", "captured" (a snapshot was taken), "written"
\* (write_live_snapshot has run since) or "restored" (restore has run since);
\* at: the live files when the snapshot was taken; provider: the provider
\* write_live_snapshot was called with; wres: what it returned; mid: the live
\* files it left; res: the last outcome.
SnapStart == [pc |-> "start", snapshot |-> None, at |-> NoLiveFiles, provider |-> NoCurrent,
              wres |-> "ok", mid |-> NoLiveFiles, res |-> "ok"]

\* sync: pc is "idle", "loop" (about to handle the i-th app type), "mcp"
\* (loop finished, MCP sync next) or "done"; written and failed: the app
\* types whose write_live_snapshot returned Ok, Err in this run; mcp: the
\* MCP sync ran; res: what sync_current_to_live returned; at: the live files
\* when the run started.
SyncIdle == [pc |-> "idle", i |-> 1, written |-> {}, failed |-> {}, mcp |-> FALSE,
             res |-> "ok", at |-> NoLiveFiles]

(***************************************************************************)
(* read_live_settings                                                      *)
(***************************************************************************)
\* read_droid_config: {} when config.json does not exist
ReadDroidConfig(f) == IF f.st = "absent" THEN Ok(JObj(EmptyMap)) ELSE ReadJsonFile(f)

\* read_and_validate_codex_config_text: the text of config.toml, empty when
\* the file does not exist
ReadCodexConfigText(f) == IF f.st = "absent" THEN Ok(<<>>) ELSE Ok(f.s)

\* The keys of the localized errors for a missing live file
CodexAuthMissing == "codex.auth.missing"
ClaudeLiveMissing == "claude.live.missing"
GeminiEnvMissing == "gemini.env.missing"

\* read_live_settings(app_type) over the live files lv and config.json cfg
ReadLiveSettings(lv, cfg, app_type) ==
    IF app_type = Codex
    THEN IF lv.codexAuth.st = "absent" THEN Err(CodexAuthMissing)
         ELSE IF ~ReadJsonFile(lv.codexAuth).ok THEN Err("json")
         ELSE Ok(JObj([auth |-> ReadJsonFile(lv.codexAuth).v,
                       config |-> JStr(ReadCodexConfigText(lv.codexConfig).v)]))
    ELSE IF app_type = Claude
    THEN IF lv.claude.st = "absent" THEN Err(ClaudeLiveMissing)
         ELSE ReadJsonFile(lv.claude)
    ELSE IF app_type = Gemini
    THEN IF lv.geminiEnv.st = "absent" THEN Err(GeminiEnvMissing)
         ELSE IF lv.geminiSettings.st = "absent"
         THEN Ok(JObj([env |-> JObj(lv.geminiEnv.m), config |-> JObj(EmptyMap)]))
         ELSE IF ~ReadJsonFile(lv.geminiSettings).ok THEN Err("json")
         ELSE Ok(JObj([env |-> JObj(lv.geminiEnv.m),
                       config |-> ReadJsonFile(lv.geminiSettings).v]))
    ELSE ReadDroidConfig(cfg)

\* readOp before any read: app is "none"; live and config are the files the
\* read found
ReadIdle == [app |-> "none", res |-> Ok(JNull), live |-> NoLiveFiles, config |-> Absent,
             settings |-> Absent]

\* write_droid_config: config.json is replaced, or the write fails
WriteDroidConfig(f, config, io_ok) == IF io_ok THEN File(config) ELSE f

(***************************************************************************)
(* write_live_snapshot, one file operation at a time                       *)
(***************************************************************************)
\* writer: pc is "idle", "writing" (the i-th write of queue is next or under
\* way) or "done"; phase is where that write is: "start", "renaming" (the
\* temporary file is complete, the rename is next) or "filling" (the file was
\* opened with truncation, the bytes are being written); at: the live files
\* when the call began; target: the live files the call is to leave.
WriterOff == [pc |-> "idle", i |-> 1, phase |-> "start", queue |-> <<>>,
              at |-> NoLiveFiles, target |-> NoLiveFiles, res |-> "ok"]

\* observed: the file another process read and the content it got; during: a
\* write_live_snapshot was running, none of its file operations had failed;
\* old, new: the content of the file when the last write_live_snapshot began
\* and the content that call was to leave in it
NotObserved == [file |-> "none", content |-> Absent, during |-> FALSE,
                old |-> Absent, new |-> Absent]

(***************************************************************************)
(* mcp/droid.rs: ~/.factory/mcp.json                                       *)
(***************************************************************************)
\* read_json_value: {} when the file does not exist
ReadJsonValue(f) ==
    IF f.st = "absent" THEN Ok(JObj(EmptyMap))
    ELSE IF f.st = "json" THEN Ok(f.v) ELSE Err("json")

\* read_mcp_servers_map: the entries of mcpServers when it is an object
ReadMcpServersMap(f) ==
    IF f.st = "absent" THEN Ok(EmptyMap)
    ELSE IF ~ReadJsonValue(f).ok THEN ReadJsonValue(f)
    ELSE IF Get(ReadJsonValue(f).v, "mcpServers").t = "obj"
    THEN Ok(Get(ReadJsonValue(f).v, "mcpServers").o)
    ELSE Ok(EmptyMap)

\* The fields set_mcp_servers_map removes from a server spec
UiFields == {"enabled", "source", "id", "name", "description", "tags", "homepage", "docs"}

\* A spec set_mcp_servers_map refuses: not an object, or with a server field
\* that is not an object
SpecRefused(spec) ==
    \/ spec.t # "obj"
    \/ "server" \in DOMAIN spec.o /\ spec.o["server"].t # "obj"

\* The entry written for a spec: the server field when there is one, else
\* the spec itself, without the UI fields
Stripped(spec) ==
    LET obj == IF "server" \in DOMAIN spec.o THEN spec.o["server"].o ELSE spec.o
    IN JObj([k \in DOMAIN obj \ UiFields |-> obj[k]])

\* Mutant of WithMcpServers: the document is replaced by one that holds only
\* mcpServers
OnlyMcpServers(root, out) == JObj([mcpServers |-> JObj(out)])

\* obj.insert("mcpServers", Value::Object(out))
WithMcpServers(root, out) == JObj(MapInsert(root.o, "mcpServers", JObj(out)))

\* set_mcp_servers_map: the outcome and the file afterwards
SetMcpServersMap(f, servers_map, io_ok) ==
    LET root == ReadJsonValue(f)
        same(e) == [res |-> e, file |-> f]
    IN
    IF ~root.ok THEN same("json")
    ELSE IF \E id \in DOMAIN servers_map : SpecRefused(servers_map[id])
    THEN same("mcp_validation")
    ELSE IF root.v.t # "obj" THEN same("config")
    ELSE IF ~io_ok THEN same("io")
    ELSE [res |-> "ok",
          file |-> File(WithMcpServers(root.v, [id \in DOMAIN servers_map |->
                                                  Stripped(servers_map[id])]))]

\* sync_single_server_to_droid; dir_exists: should_sync_droid_mcp
SyncSingleServerToDroid(f, dir_exists, id, server_spec, io_ok) ==
    IF ~dir_exists THEN [res |-> "ok", file |-> f]
    ELSE IF ~ReadMcpServersMap(f).ok THEN [res |-> ReadMcpServersMap(f).err, file |-> f]
    ELSE SetMcpServersMap(f, MapInsert(ReadMcpServersMap(f).v, id, server_spec), io_ok)

\* remove_server_from_droid
RemoveServerFromDroid(f, dir_exists, id, io_ok) ==
    IF ~dir_exists THEN [res |-> "ok", file |-> f]
    ELSE IF ~ReadMcpServersMap(f).ok THEN [res |-> ReadMcpServersMap(f).err, file |-> f]
    ELSE SetMcpServersMap(f, MapRemove(ReadMcpServersMap(f).v, id), io_ok)

\* mcpOp: the last operation, its arguments, its outcome (count: what
\* import_from_droid returned), the file and the servers before it
McpIdle == [op |-> "none", id |-> "", arg |-> None, map |-> EmptyMap, dir |-> FALSE,
            res |-> "ok", count |-> 0, file |-> Absent, servers |-> None]

(***************************************************************************)
(* mcp/droid.rs: import_from_droid                                         *)
(***************************************************************************)
\* validate_server_spec: an object with a command or a url that is a string
ValidateServerSpec(spec) ==
    /\ spec.t = "obj"
    /\ \/ AsStr(Get(spec, "command")) # None
       \/ AsStr(Get(spec, "url")) # None

\* McpApps { claude: false, codex: false, gemini: false, droid: true }
OnlyDroid == [claude |-> FALSE, codex |-> FALSE, gemini |-> FALSE, droid |-> TRUE]

\* The McpServer created for an id that was not known
NewServer(id, spec) ==
    [id |-> id, name |-> id, server |-> spec, apps |-> OnlyDroid,
     description |-> None, homepage |-> None, docs |-> None, tags |-> <<>>]

\* Mutant of EnableDroid: the other apps' flags are reset
EnableDroidOnly(existing) == [existing EXCEPT !.apps = OnlyDroid]

\* if !existing.apps.droid { existing.apps.droid = true }
EnableDroid(existing) == [existing EXCEPT !.apps.droid = TRUE]

\* import_from_droid over mcp.json f and config.mcp.servers (None or Some)
ImportFromDroid(f, known) ==
    LET read == ReadMcpServersMap(f)
    IN
    IF ~read.ok THEN [res |-> read.err, count |-> 0, servers |-> known]
    ELSE IF DOMAIN read.v = {} THEN [res |-> "ok", count |-> 0, servers |-> known]
    ELSE
    LET map == read.v
        before == IF known = None THEN EmptyMap ELSE known.v
        valid == {id \in DOMAIN map : ValidateServerSpec(map[id])}
        changed == {id \in valid : id \notin DOMAIN before \/ ~before[id].apps.droid}
        after == [id \in DOMAIN before \cup valid |->
                    IF id \notin valid THEN before[id]
                    ELSE IF id \in DOMAIN before THEN EnableDroid(before[id])
                    ELSE NewServer(id, map[id])]
    IN [res |-> "ok", count |-> Cardinality(changed), servers |-> Some(after)]

(***************************************************************************)
(* import_default_config                                                   *)
(***************************************************************************)
\* state.db: providers[a] maps the ids of the providers of app type a to
\* their records, current[a] is the id of its current provider ("": none)
EmptyStore == [providers |-> [a \in {"claude", "codex", "gemini", "droid"} |-> EmptyMap],
               current |-> [a \in {"claude", "codex", "gemini", "droid"} |-> ""]]

\* normalize_claude_models_in_value: env.ANTHROPIC_SMALL_FAST_MODEL is moved
\* to env.ANTHROPIC_DEFAULT_HAIKU_MODEL unless that one is set already
NormalizeClaudeModels(v) ==
    LET env == Get(v, "env")
    IN IF env.t = "obj" /\ "ANTHROPIC_SMALL_FAST_MODEL" \in DOMAIN env.o
       THEN LET small == env.o["ANTHROPIC_SMALL_FAST_MODEL"]
                rest == MapRemove(env.o, "ANTHROPIC_SMALL_FAST_MODEL")
                env2 == IF "ANTHROPIC_DEFAULT_HAIKU_MODEL" \in DOMAIN rest THEN rest
                        ELSE MapInsert(rest, "ANTHROPIC_DEFAULT_HAIKU_MODEL", small)
            IN JObj(MapInsert(v.o, "env", JObj(env2)))
       ELSE v

\* The keys of the localized errors for a missing live file
CodexLiveMissing == "codex.live.missing"
GeminiLiveMissing == "gemini.live.missing"

\* The Droid arm: the first entry of customModels of config.json, else {}
FirstCustomModel(config) ==
    IF Get(config, "customModels").t = "arr" /\ Get(config, "customModels").a # <<>>
    THEN Head(Get(config, "customModels").a)
    ELSE JObj(EmptyMap)

\* let settings_config = match app_type { .. }
ImportedSettings(lv, cfg, app_type) ==
    IF app_type = Codex
    THEN IF lv.codexAuth.st = "absent" THEN Err(CodexLiveMissing)
         ELSE IF ~ReadJsonFile(lv.codexAuth).ok THEN Err("json")
         ELSE Ok(JObj([auth |-> ReadJsonFile(lv.codexAuth).v,
                       config |-> JStr(ReadCodexConfigText(lv.codexConfig).v)]))
    ELSE IF app_type = Claude
    THEN IF lv.claude.st = "absent" THEN Err(ClaudeLiveMissing)
         ELSE IF ~ReadJsonFile(lv.claude).ok THEN Err("json")
         ELSE Ok(NormalizeClaudeModels(ReadJsonFile(lv.claude).v))
    ELSE IF app_type = Gemini
    THEN IF lv.geminiEnv.st = "absent" THEN Err(GeminiLiveMissing)
         ELSE IF lv.geminiSettings.st = "absent"
         THEN Ok(JObj([env |-> JObj(lv.geminiEnv.m), config |-> JObj(EmptyMap)]))
         ELSE IF ~ReadJsonFile(lv.geminiSettings).ok THEN Err("json")
         ELSE Ok(JObj([env |-> JObj(lv.geminiEnv.m),
                       config |-> ReadJsonFile(lv.geminiSettings).v]))
    ELSE IF ~ReadDroidConfig(cfg).ok THEN ReadDroidConfig(cfg)
         ELSE Ok(FirstCustomModel(ReadDroidConfig(cfg).v))

\* Provider::with_id("default", "default", settings_config, None) with
\* category Some("custom")
DefaultProvider(settings_config) ==
    [id |-> "default", name |-> "default", settings |-> settings_config,
     category |-> "custom"]

\* import_default_config.  db is the number of the database call that fails
\* (0: none): 1 get_all_providers, 2 save_provider, 3 set_current_provider.
ImportDefaultConfig(st, lv, cfg, app_type, db) ==
    LET settings_config == ImportedSettings(lv, cfg, app_type)
        saved == [st EXCEPT !.providers[app_type] =
                     MapInsert(st.providers[app_type], "default",
                               DefaultProvider(settings_config.v))]
    IN
    IF db = 1 THEN [res |-> Err("db"), store |-> st]
    ELSE IF DOMAIN st.providers[app_type] # {} THEN [res |-> Ok(FALSE), store |-> st]
    ELSE IF ~settings_config.ok THEN [res |-> settings_config, store |-> st]
    ELSE IF db = 2 THEN [res |-> Err("db"), store |-> st]
    ELSE IF db = 3 THEN [res |-> Err("db"), store |-> saved]
    ELSE [res |-> Ok(TRUE), store |-> [saved EXCEPT !.current[app_type] = "default"]]

\* importOp before any import: app is "none"; store, live and config are the
\* store and the files the import found
ImportIdle == [app |-> "none", db |-> 0, res |-> Ok(FALSE), store |-> EmptyStore,
               live |-> NoLiveFiles, config |-> Absent]

(***************************************************************************)
(* The Droid settings file and the operations on it                        *)
(***************************************************************************)
\* droidOp: the last operation (op, its arguments, its outcome, whether it
\* replaced the file) and rep: the operation before it was a successful
\* write_droid_live of the same provider.  droidPrev: the file before it.
NoProvider == [name |-> <<>>, settings |-> JNull]

InitDroid ==
    /\ droidSettings \in InitialDroidFiles
    /\ droidPrev = droidSettings
    /\ droidOp = [op |-> "none", provider |-> NoProvider, res |-> "ok",
                  wrote |-> FALSE, rep |-> FALSE]
    /\ live = NoLiveFiles
    /\ current = [a \in AppTypes |-> NoCurrent]
    /\ sync = SyncIdle
    /\ snap = SnapStart
    /\ droidConfig = Absent
    /\ readOp = ReadIdle
    /\ writer = WriterOff
    /\ observed = NotObserved
    /\ mcpFile = Absent
    /\ servers = None
    /\ mcpOp = McpIdle
    /\ store = EmptyStore
    /\ importOp = ImportIdle

\* The indexes in the file stay within the index cap of the model
WithinCap(f) ==
    LET read == ReadJsonFile(f)
    IN read.ok /\ Get(read.v, "customModels").t = "arr"
         => NextIndex(Get(read.v, "customModels").a) <= MaxIndex + 1

DoWriteDroidLive ==
    \E provider \in Providers, io_ok \in BOOLEAN :
        LET r == WriteDroidLive(droidSettings, provider, io_ok)
        IN /\ WithinCap(r.file)
           /\ UNCHANGED <<restVars, live, current, sync, snap>>
           /\ droidSettings' = r.file
           /\ droidPrev' = droidSettings
           /\ droidOp' = [op |-> "write", provider |-> provider, res |-> r.res,
                          wrote |-> r.wrote,
                          rep |-> /\ droidOp.op = "write"
                                  /\ droidOp.res = "ok"
                                  /\ droidOp.provider = provider]

DoRemoveDroidCustomModel ==
    \E provider_name \in ProviderNames, io_ok \in BOOLEAN :
        LET r == RemoveDroidCustomModel(droidSettings, provider_name, io_ok)
        IN /\ UNCHANGED <<restVars, live, current, sync, snap>>
           /\ droidSettings' = r.file
           /\ droidPrev' = droidSettings
           /\ droidOp' = [op |-> "remove",
                          provider |-> [name |-> provider_name, settings |-> JNull],
                          res |-> r.res, wrote |-> r.wrote, rep |-> FALSE]

DoCleanupSettings ==
    \E io_ok \in BOOLEAN :
        LET r == CleanupSettingsForNewConfig(droidSettings, io_ok)
        IN /\ UNCHANGED <<restVars, live, current, sync, snap>>
           /\ droidSettings' = r.file
           /\ droidPrev' = droidSettings
           /\ droidOp' = [op |-> "cleanup", provider |-> NoProvider,
                          res |-> r.res, wrote |-> r.wrote,
                          rep |-> droidOp.op = "cleanup" /\ droidOp.res = "ok"]

Init == InitDroid

Next == DoWriteDroidLive \/ DoRemoveDroidCustomModel \/ DoCleanupSettings

Spec == Init /\ [][Next]_vars

(***************************************************************************)
(* Reading a state: the entries of a file, the last write                  *)
(***************************************************************************)
\* The parsed document of a file, None when there is none
DocOf(f) == IF f.st = "json" THEN f.v ELSE None
\* The customModels array of a file, empty when it has none
ModelsOf(f) == IF Get(DocOf(f), "customModels").t = "arr"
               THEN Get(DocOf(f), "customModels").a ELSE <<>>
DisplayNameOf(m) == AsStr(Get(m, "displayName"))
\* Top-level keys of a document
KeysOf(d) == IF d.t = "obj" THEN DOMAIN d.o ELSE {}

LastWriteOk == droidOp.op = "write" /\ droidOp.res = "ok"
\* Place, in the file before the last operation, of the entry named as the
\* last operation's provider (0: none), found without the model's Position
OldPlaces == {i \in 1..Len(ModelsOf(droidPrev)) :
                DisplayNameOf(ModelsOf(droidPrev)[i]) = JStr(droidOp.provider.name)}
LastWriteReplaced == LastWriteOk /\ OldPlaces # {}
LastWriteAppended == LastWriteOk /\ OldPlaces = {}
OldPlace == CHOOSE i \in OldPlaces : \A j \in OldPlaces : i <= j
\* The entry the last successful write stored
WrittenEntry == IF OldPlaces # {} THEN ModelsOf(droidSettings)[OldPlace]
                ELSE ModelsOf(droidSettings)[Len(ModelsOf(droidSettings))]

\* C1: no two entries of customModels carry the same displayName, after any
\* sequence of write_droid_live, remove_droid_custom_model and
\* cleanup_settings_for_new_config from a document without duplicates.
C1_UniqueDisplayNames ==
    \A i, j \in 1..Len(ModelsOf(droidSettings)) :
        (i # j /\ DisplayNameOf(ModelsOf(droidSettings)[i]) # None)
            => DisplayNameOf(ModelsOf(droidSettings)[i])
                 # DisplayNameOf(ModelsOf(droidSettings)[j])

\* C1 witness: a write found its display name already present, in a file
\* that holds another named entry too.
C1_Witness ==
    /\ LastWriteReplaced
    /\ \E i \in 1..Len(ModelsOf(droidSettings)) :
          /\ DisplayNameOf(ModelsOf(droidSettings)[i]) # None
          /\ DisplayNameOf(ModelsOf(droidSettings)[i]) # JStr(droidOp.provider.name)

\* The translated settings fields of an entry
SettingsFields == {"model", "baseUrl", "apiKey", "displayName", "maxOutputTokens",
                   "noImageSupport", "provider"}

\* The entry stored in place of an existing one carries the new provider's
\* translated fields, at the old place, in an array of the old length.
ReplacedInPlace ==
    /\ Len(ModelsOf(droidSettings)) = Len(ModelsOf(droidPrev))
    /\ DisplayNameOf(WrittenEntry) = JStr(droidOp.provider.name)
    /\ \A k \in SettingsFields :
          Get(WrittenEntry, k)
            = Get(BuildDroidSettingsModel(droidOp.provider.settings,
                                          droidOp.provider.name, 0).v, k)
    /\ droidOp.provider.settings = SettingsCamel
          => /\ Get(WrittenEntry, "apiKey") = JStr(K1)
             /\ Get(WrittenEntry, "baseUrl") = JStr(UrlX)
             /\ Get(WrittenEntry, "model") = JStr(M1)

\* C2 as stated: a write for an existing display name replaces the entry in
\* place, and the id and index of the stored entry are those of the old entry.
C2_Original ==
    LastWriteReplaced =>
        /\ ReplacedInPlace
        /\ Get(WrittenEntry, "id") = Get(ModelsOf(droidPrev)[OldPlace], "id")
        /\ Get(WrittenEntry, "index") = Get(ModelsOf(droidPrev)[OldPlace], "index")

\* The sanitised form of the two names the operations are called with
MyDashX == <<"m", "y", "-", "x">>

\* The index a write allocates: one more than the greatest integer index in
\* the file before it, 0 when no entry has one.
FreshIndexIs(n) ==
    LET old == ModelsOf(droidPrev)
        ints == {i \in 1..Len(old) : Get(old[i], "index").t = "int"}
    IN IF ints = {} THEN n = 0
       ELSE \E i \in ints : /\ n = Get(old[i], "index").n + 1
                            /\ \A j \in ints : Get(old[j], "index").n < n

\* C2 (amended): a write for an existing display name replaces the entry in
\* place; the stored entry keeps the old entry's integer index (its zero-based
\* array position when the old entry has none) and the old entry's string id
\* (a newly minted custom:<sanitized-name>-<next index> when it has none).
C2_ReplaceKeepsIdentity ==
    LastWriteReplaced =>
        LET old == ModelsOf(droidPrev)[OldPlace]
        IN /\ ReplacedInPlace
           /\ IF Get(old, "index").t = "int"
              THEN Get(WrittenEntry, "index") = Get(old, "index")
              ELSE Get(WrittenEntry, "index") = JInt(OldPlace - 1)
           /\ IF Get(old, "id").t = "str"
              THEN Get(WrittenEntry, "id") = Get(old, "id")
              ELSE \E n \in 0..(MaxIndex + 1) :
                      /\ FreshIndexIs(n)
                      /\ Get(WrittenEntry, "id")
                           = JStr(CustomPrefix \o MyDashX \o <<"-">> \o <<DigitChars[n + 1]>>)

\* C2 witness: an entry that had an id and an index was replaced by one with
\* another apiKey.
C2_Witness ==
    /\ LastWriteReplaced
    /\ Get(ModelsOf(droidPrev)[OldPlace], "id").t = "str"
    /\ Get(ModelsOf(droidPrev)[OldPlace], "index").t = "int"
    /\ Get(ModelsOf(droidPrev)[OldPlace], "apiKey") # Get(WrittenEntry, "apiKey")

\* C3: a write for a display name no entry has appends exactly one entry at
\* the end, with index one more than the greatest existing index (0 when
\* there is none) and id custom:<sanitized-name>-<index>.
C3_AppendAllocatesIndex ==
    LastWriteAppended =>
        LET old == ModelsOf(droidPrev)
            new == ModelsOf(droidSettings)
        IN /\ Len(new) = Len(old) + 1
           /\ \A i \in 1..Len(old) : new[i] = old[i]
           /\ DisplayNameOf(new[Len(new)]) = JStr(droidOp.provider.name)
           /\ \E n \in 0..(MaxIndex + 1) :
                 /\ FreshIndexIs(n)
                 /\ Get(new[Len(new)], "index") = JInt(n)
                 /\ Get(new[Len(new)], "id")
                      = JStr(CustomPrefix \o MyDashX \o <<"-">> \o <<DigitChars[n + 1]>>)

\* C3 witness: a new name was registered in a collection whose greatest
\* index was 2, and got index 3.
C3_Witness ==
    /\ LastWriteAppended
    /\ Len(ModelsOf(droidPrev)) > 0
    /\ ~FreshIndexIs(Len(ModelsOf(droidPrev)))
    /\ Get(WrittenEntry, "index") = JInt(3)

\* C4 as stated: after a successful write whose stored entry has a non-empty
\* id, sessionDefaultSettings.model is that id, whatever the document held.
C4_PointerFollowsWrite ==
    (LastWriteOk /\ Get(WrittenEntry, "id").t = "str" /\ Get(WrittenEntry, "id").s # <<>>)
        => Get(Get(DocOf(droidSettings), "sessionDefaultSettings"), "model")
             = Get(WrittenEntry, "id")

\* C5: write_droid_live leaves every entry with another displayName as it
\* was, at its place, and every top-level key other than customModels and
\* sessionDefaultSettings as it was.
C5_WriteLeavesOthers ==
    droidOp.op = "write" =>
        LET old == ModelsOf(droidPrev)
            new == ModelsOf(droidSettings)
            owned == {"customModels", "sessionDefaultSettings"}
        IN /\ \A i \in 1..Len(old) :
                 DisplayNameOf(old[i]) # JStr(droidOp.provider.name)
                     => i <= Len(new) /\ new[i] = old[i]
           /\ droidPrev.st = "json" =>
                 /\ KeysOf(DocOf(droidSettings)) \ owned = KeysOf(DocOf(droidPrev)) \ owned
                 /\ \A k \in KeysOf(DocOf(droidPrev)) \ owned :
                       Get(DocOf(droidSettings), k) = Get(DocOf(droidPrev), k)

\* C5 witness: a write replaced the file while it held an entry with another
\* displayName and a top-level key of its own.
C5_Witness ==
    /\ LastWriteOk
    /\ droidSettings # droidPrev
    /\ "theme" \in KeysOf(DocOf(droidPrev))
    /\ \E i \in 1..Len(ModelsOf(droidPrev)) :
          /\ ModelsOf(droidPrev)[i].t = "obj"
          /\ DisplayNameOf(ModelsOf(droidPrev)[i]) # JStr(droidOp.provider.name)

\* C6: write_droid_live called right after a successful write_droid_live of
\* the same provider leaves the document as the first call left it.
C6_WriteIdempotent ==
    (droidOp.op = "write" /\ droidOp.rep) => droidSettings = droidPrev

\* C6 witness: the second of two successful writes of one provider, the first
\* of which had changed the file it found.
C6_Witness ==
    /\ LastWriteOk
    /\ droidOp.rep
    /\ droidOp.wrote
    /\ Len(ModelsOf(droidSettings)) >= 2

\* C7: remove_droid_custom_model(name) removes the entry named name and
\* leaves the other entries and every other field as they were; when no entry
\* matches, or there is no customModels array, the file is left as it was and
\* nothing is written.
C7_RemoveLeavesOthers ==
    droidOp.op = "remove" =>
        LET old == ModelsOf(droidPrev)
            new == ModelsOf(droidSettings)
            named(m) == DisplayNameOf(m) = JStr(droidOp.provider.name)
            other(m) == ~named(m)
        IN IF droidOp.wrote
           THEN /\ \E i \in 1..Len(old) : named(old[i])
                /\ new = SelectSeq(old, other)
                /\ KeysOf(DocOf(droidSettings)) = KeysOf(DocOf(droidPrev))
                /\ \A k \in KeysOf(DocOf(droidPrev)) \ {"customModels"} :
                      Get(DocOf(droidSettings), k) = Get(DocOf(droidPrev), k)
           ELSE /\ droidSettings = droidPrev
                /\ droidOp.res = "ok" => \A i \in 1..Len(old) : other(old[i])

\* C7 witness: an entry was removed from a collection that keeps another
\* entry and a selection pointer.
C7_Witness ==
    /\ droidOp.op = "remove"
    /\ droidOp.wrote
    /\ \E i \in 1..Len(ModelsOf(droidSettings)) : ModelsOf(droidSettings)[i].t = "obj"
    /\ Get(Get(DocOf(droidSettings), "sessionDefaultSettings"), "model").t = "str"

\* C8 as stated: with an existing settings file that cannot be read or parsed,
\* write_droid_live returns an error and leaves the file as it was.
C8_MalformedSurfaced ==
    (droidOp.op = "write" /\ droidPrev = Malformed)
        => droidOp.res # "ok" /\ droidSettings = droidPrev

(***************************************************************************)
(* Snapshot, write, restore                                                *)
(***************************************************************************)
InitSnap ==
    /\ live \in InitialLiveFiles
    /\ snap = SnapStart
    /\ droidConfig = Absent
    /\ readOp = ReadIdle
    /\ writer = WriterOff
    /\ observed = NotObserved
    /\ mcpFile = Absent
    /\ servers = None
    /\ mcpOp = McpIdle
    /\ store = EmptyStore
    /\ importOp = ImportIdle
    /\ droidSettings = Absent
    /\ droidPrev = Absent
    /\ droidOp = [op |-> "none", provider |-> NoProvider, res |-> "ok",
                  wrote |-> FALSE, rep |-> FALSE]
    /\ current = [a \in AppTypes |-> NoCurrent]
    /\ sync = SyncIdle

DoCapture ==
    /\ snap.pc \in {"start", "restored"}
    /\ \E app_type \in SnapshotApps :
          LET c == Capture(live, app_type)
          IN snap' = IF c.ok THEN [SnapStart EXCEPT !.pc = "captured", !.snapshot = c.v,
                                                     !.at = live, !.mid = live]
                     ELSE [SnapStart EXCEPT !.res = c.err]
    /\ UNCHANGED <<restVars, live, droidVars, current, sync>>

\* write_live_snapshot for the app type of the snapshot
DoWriteLiveSnapshot ==
    /\ snap.pc = "captured"
    /\ \E provider \in ProvidersOf(snap.snapshot.variant), io \in 0..3 :
          LET r == WriteLiveSnapshot(live, snap.snapshot.variant, provider, io)
          IN /\ live' = r.live
             /\ snap' = [snap EXCEPT !.pc = "written", !.provider = provider,
                                       !.wres = r.res, !.mid = r.live]
    /\ UNCHANGED <<restVars, droidVars, current, sync>>

DoRestore ==
    /\ snap.pc = "written"
    /\ \E io \in 0..2 :
          LET r == Restore(live, snap.snapshot, io)
          IN /\ live' = r.live
             /\ snap' = [snap EXCEPT !.pc = "restored", !.res = r.res]
    /\ UNCHANGED <<restVars, droidVars, current, sync>>

NextSnap == DoCapture \/ DoWriteLiveSnapshot \/ DoRestore

SpecSnap == InitSnap /\ [][NextSnap]_vars

(***************************************************************************)
(* sync_current_to_live                                                    *)
(***************************************************************************)
\* for app_type in [AppType::Claude, AppType::Codex, AppType::Gemini]
SyncApps == <<Claude, Codex, Gemini>>

\* The live files a sync starts from
SyncLiveFiles ==
    {lv \in InitialLiveFiles :
        /\ lv.claude # Malformed
        /\ (lv.codexAuth = Absent) = (lv.codexConfig = Absent)
        /\ (lv.geminiEnv = Absent) = (lv.claude = Absent)}

InitSync ==
    /\ live \in SyncLiveFiles
    /\ current \in {c \in [AppTypes -> {NoCurrent, ClaudeKeyOne, CodexGood, CodexNoConfig,
                                        GeminiGeneric, GeminiNoKey, DroidCurrent}] :
                      \A a \in AppTypes : c[a] \in ProvidersOf(a) \cup {NoCurrent}}
    /\ sync = SyncIdle
    /\ snap = SnapStart
    /\ droidConfig = Absent
    /\ readOp = ReadIdle
    /\ writer = WriterOff
    /\ observed = NotObserved
    /\ mcpFile = Absent
    /\ servers = None
    /\ mcpOp = McpIdle
    /\ store = EmptyStore
    /\ importOp = ImportIdle
    /\ droidSettings = Absent
    /\ droidPrev = Absent
    /\ droidOp = [op |-> "none", provider |-> NoProvider, res |-> "ok",
                  wrote |-> FALSE, rep |-> FALSE]

\* Mutant of Advance: the loop is left for the MCP sync after any app type
AdvanceStraightToMcp(sy) == [sy EXCEPT !.pc = "mcp"]

\* The loop moves on to the next app type, or leaves for the MCP sync
Advance(sy) == IF sy.i < Len(SyncApps) THEN [sy EXCEPT !.i = sy.i + 1]
               ELSE [sy EXCEPT !.pc = "mcp"]

\* Mutant of AfterWrite: a failed write is noted and the loop goes on
AfterWriteCollecting(sy, app_type, res) ==
    IF res = "ok" THEN Advance([sy EXCEPT !.written = sy.written \cup {app_type}])
    ELSE Advance([sy EXCEPT !.failed = sy.failed \cup {app_type}, !.res = res])

\* write_live_snapshot(&app_type, provider)?: an error leaves the function
AfterWrite(sy, app_type, res) ==
    IF res = "ok" THEN Advance([sy EXCEPT !.written = sy.written \cup {app_type}])
    ELSE [sy EXCEPT !.failed = sy.failed \cup {app_type}, !.pc = "done", !.res = res]

DoSyncStart ==
    /\ sync.pc \in {"idle", "done"}
    /\ sync' = [SyncIdle EXCEPT !.pc = "loop", !.at = live]
    /\ UNCHANGED <<restVars, live, current, snap, droidVars>>

\* One turn of the loop.  db_ok: get_effective_current_provider and
\* get_all_providers answer.
DoSyncApp ==
    /\ sync.pc = "loop"
    /\ \E db_ok \in BOOLEAN, io \in 0..3 :
          LET app_type == SyncApps[sync.i]
              r == WriteLiveSnapshot(live, app_type, current[app_type], io)
          IN IF ~db_ok
             THEN /\ sync' = [sync EXCEPT !.pc = "done", !.res = "db"]
                  /\ live' = live
             ELSE IF current[app_type] = NoCurrent
             THEN /\ sync' = Advance(sync)
                  /\ live' = live
             ELSE /\ sync' = AfterWrite(sync, app_type, r.res)
                  /\ live' = r.live
    /\ UNCHANGED <<restVars, current, snap, droidVars>>

\* McpService::sync_all_enabled(state)?
DoSyncMcp ==
    /\ sync.pc = "mcp"
    /\ \E mcp_ok \in BOOLEAN :
          sync' = IF mcp_ok THEN [sync EXCEPT !.pc = "done", !.mcp = TRUE]
                  ELSE [sync EXCEPT !.pc = "done", !.res = "mcp"]
    /\ UNCHANGED <<restVars, live, current, snap, droidVars>>

NextSync == DoSyncStart \/ DoSyncApp \/ DoSyncMcp

SpecSync == InitSync /\ [][NextSync]_vars

\* The live files of an app type
FilesOfApp(app_type) ==
    IF app_type = Claude THEN {"claude"}
    ELSE IF app_type = Codex THEN {"codexAuth", "codexConfig"}
    ELSE IF app_type = Gemini THEN {"geminiEnv", "geminiSettings"}
    ELSE {}

\* C9 as stated: when the write for one app type fails, the other app types
\* that have an effective current provider are still written.
C9_SyncContinuesPastFailure ==
    (sync.pc = "done" /\ sync.failed # {}) =>
        \A k \in 1..Len(SyncApps) :
            current[SyncApps[k]] # NoCurrent => SyncApps[k] \in sync.written \cup sync.failed

\* C9 (amended): sync_current_to_live stops at the first app type whose
\* write fails: it returns that error at once, the app types before it that
\* have a current provider have been written, no later app type is written
\* (their live files are as they were) and the MCP sync does not run.
C9_SyncAbortsAtFirstFailure ==
    sync.failed # {} =>
        /\ sync.pc = "done"
        /\ sync.res \notin {"ok", "db", "mcp"}
        /\ ~sync.mcp
        /\ \E k \in 1..Len(SyncApps) :
              /\ sync.failed = {SyncApps[k]}
              /\ \A j \in 1..(k - 1) :
                    current[SyncApps[j]] # NoCurrent => SyncApps[j] \in sync.written
              /\ \A j \in (k + 1)..Len(SyncApps) :
                    /\ SyncApps[j] \notin sync.written
                    /\ \A f \in FilesOfApp(SyncApps[j]) : live[f] = sync.at[f]

\* C9 witness: the Codex write failed after the Claude write, with a current
\* Gemini provider still to come.
C9_Witness ==
    /\ sync.pc = "done"
    /\ sync.failed = {Codex}
    /\ Claude \in sync.written
    /\ current[Gemini] # NoCurrent

\* C10: a successful LiveSnapshot::restore leaves every live file of the
\* snapshot's app type as it was when the snapshot was taken (absent when it
\* was absent), whether the write_live_snapshot in between succeeded or
\* failed partway.
C10_RestoreReturnsCaptured ==
    (snap.pc = "restored" /\ snap.res = "ok") =>
        \A f \in FilesOfApp(snap.snapshot.variant) : live[f] = snap.at[f]

\* C10 witness: the Codex write failed after creating the auth file, which
\* was absent at capture beside an existing config file, and the restore
\* succeeded.
C10_Witness ==
    /\ snap.pc = "restored"
    /\ snap.res = "ok"
    /\ snap.snapshot.variant = Codex
    /\ snap.wres = "io"
    /\ snap.at.codexAuth = Absent
    /\ snap.at.codexConfig # Absent
    /\ snap.mid.codexAuth # Absent

(***************************************************************************)
(* write_gemini_live and write_live_snapshot as claimed                    *)
(***************************************************************************)
\* write_live_snapshot has run for the Gemini app type
GeminiWritten == snap.pc \in {"written", "restored"} /\ snap.snapshot.variant = Gemini

\* The provider's config is null or absent
ConfigNullOrAbsent(provider) ==
    Get(provider.settings, "config") = None \/ Get(provider.settings, "config") = JNull

\* The fields of a JSON object except one key; nothing for any other value
FieldsBut(v, k) == IF v.t = "obj" THEN [j \in DOMAIN v.o \ {k} |-> v.o[j]] ELSE EmptyMap

\* Two settings documents agree on every field other than
\* security.auth.selectedType
SameButSelectedType(before, after) ==
    /\ FieldsBut(before, "security") = FieldsBut(after, "security")
    /\ FieldsBut(Get(before, "security"), "auth") = FieldsBut(Get(after, "security"), "auth")
    /\ FieldsBut(Get(Get(before, "security"), "auth"), "selectedType")
         = FieldsBut(Get(Get(after, "security"), "auth"), "selectedType")

\* C11: when write_gemini_live is called for a provider whose config is null
\* or absent, the existing settings document is still a document afterwards
\* and every field of it other than security.auth.selectedType has the value
\* it had before, whatever the call returned.
C11_NullConfigPreservesSettings ==
    (GeminiWritten /\ ConfigNullOrAbsent(snap.provider) /\ snap.at.geminiSettings.st = "json")
        => /\ snap.mid.geminiSettings.st = "json"
           /\ SameButSelectedType(snap.at.geminiSettings.v, snap.mid.geminiSettings.v)

\* C11 witness: a successful write with an absent config over a document that
\* has a security section; the flag changed, the document was rewritten.
C11_Witness ==
    /\ GeminiWritten
    /\ snap.wres = "ok"
    /\ snap.provider = GeminiNoConfig
    /\ snap.at.geminiSettings = File(GeminiSettingsSecured)
    /\ snap.mid.geminiSettings # snap.at.geminiSettings
    /\ Get(Get(Get(snap.mid.geminiSettings.v, "security"), "auth"), "selectedType")
         = GeminiApiKey

\* C12: a provider classified as official OAuth is not validated and a
\* successful write leaves the env file empty; a provider classified as an
\* API-key mode that fails strict validation gets an error and both the env
\* file and the settings file are as they were.
C12_OAuthClearsApiKeyValidates ==
    GeminiWritten =>
        /\ (DetectGeminiAuthType(snap.provider) = GoogleOfficial
              /\ ConfigNullOrAbsent(snap.provider))
             => /\ snap.wres # "validation"
                /\ snap.wres = "ok" => snap.mid.geminiEnv = Env(EmptyMap)
        /\ (DetectGeminiAuthType(snap.provider) \in {Packycode, Generic}
              /\ ~ValidateGeminiSettingsStrict(snap.provider.settings))
             => /\ snap.wres # "ok"
                /\ snap.mid.geminiEnv = snap.at.geminiEnv
                /\ snap.mid.geminiSettings = snap.at.geminiSettings

\* C12 witness, OAuth: a provider that carries an API key and would not pass
\* strict validation was written over an env file that held a key.
C12_Witness ==
    /\ GeminiWritten
    /\ DetectGeminiAuthType(snap.provider) = GoogleOfficial
    /\ ~ValidateGeminiSettingsStrict(snap.provider.settings)
    /\ JsonToEnv(snap.provider.settings).v # EmptyMap
    /\ snap.at.geminiEnv = Env(GeminiEnvOld)
    /\ snap.wres = "ok"
    /\ snap.mid.geminiEnv = Env(EmptyMap)

\* An API-key provider with an empty key was refused while both files
\* existed and could be read.
C12_RefusedReached ==
    /\ GeminiWritten
    /\ snap.provider = GeminiNoKey
    /\ snap.wres = "validation"
    /\ snap.at.geminiEnv = Env(GeminiEnvOld)
    /\ snap.at.geminiSettings = File(GeminiSettingsOld)

\* C13: when write_gemini_live is called for a provider whose config is
\* present and is neither an object nor null, it returns a validation error
\* and both the env file and the settings file are as they were.
C13_BadConfigRejected ==
    (GeminiWritten /\ Get(snap.provider.settings, "config") # None
       /\ Get(snap.provider.settings, "config").t \notin {"obj", "null"})
        => /\ snap.wres = "validation"
           /\ snap.mid.geminiEnv = snap.at.geminiEnv
           /\ snap.mid.geminiSettings = snap.at.geminiSettings

\* C13 witness: a provider with a string config, otherwise valid, was
\* refused while both files existed.
C13_Witness ==
    /\ GeminiWritten
    /\ Get(snap.provider.settings, "config").t = "str"
    /\ ValidateGeminiSettingsStrict(snap.provider.settings)
    /\ snap.wres = "validation"
    /\ snap.at.geminiEnv # Absent
    /\ snap.at.geminiSettings.st = "json"

\* write_live_snapshot has run for the Codex app type
CodexWritten == snap.pc \in {"written", "restored"} /\ snap.snapshot.variant = Codex

\* The provider settings are an object with auth and a string config
CodexWellFormed(settings) ==
    /\ settings.t = "obj"
    /\ "auth" \in DOMAIN settings.o
    /\ "config" \in DOMAIN settings.o
    /\ settings.o["config"].t = "str"

\* C14: write_live_snapshot for Codex returns a configuration error and
\* leaves both files as they were when the provider settings are not an
\* object, lack auth, or have a config that is missing or not a string;
\* otherwise it returns no configuration error, and when it returns Ok the
\* auth file holds exactly the auth value and the config file exactly the
\* config text.
C14_CodexWriteChecksShape ==
    CodexWritten =>
        IF CodexWellFormed(snap.provider.settings)
        THEN /\ snap.wres \in {"ok", "io"}
             /\ snap.wres = "ok" =>
                   /\ snap.mid.codexAuth = File(snap.provider.settings.o["auth"])
                   /\ snap.mid.codexConfig = Text(snap.provider.settings.o["config"].s)
        ELSE /\ snap.wres = "config"
             /\ snap.mid.codexAuth = snap.at.codexAuth
             /\ snap.mid.codexConfig = snap.at.codexConfig

\* C14 witness: a well-formed provider was written over older files.
C14_Witness ==
    /\ CodexWritten
    /\ snap.provider = CodexGood
    /\ snap.wres = "ok"
    /\ snap.at.codexAuth = File(CodexAuthOld)
    /\ snap.at.codexConfig = Text(TomlOld)
    /\ snap.mid.codexConfig = Text(TomlOne)

\* Each of the four malformed shapes was refused while both files existed.
C14_RefusedReached(provider) ==
    /\ CodexWritten
    /\ snap.provider = provider
    /\ snap.wres = "config"
    /\ snap.at.codexAuth # Absent
    /\ snap.at.codexConfig # Absent

(***************************************************************************)
(* Reading the live files back                                             *)
(***************************************************************************)
\* Documents config.json may hold
DroidConfigOld == JObj([custom_models |-> JArr(<<>>)])
DroidConfigNew == JObj([custom_models |-> JArr(<<JObj([model |-> JStr(M1)])>>)])

InitRead ==
    /\ live \in InitialLiveFiles
    /\ droidConfig \in {Absent, Malformed, File(DroidConfigOld)}
    /\ readOp = ReadIdle
    /\ writer = WriterOff
    /\ observed = NotObserved
    /\ mcpFile = Absent
    /\ servers = None
    /\ mcpOp = McpIdle
    /\ store = EmptyStore
    /\ importOp = ImportIdle
    /\ droidSettings = Absent
    /\ droidPrev = Absent
    /\ droidOp = [op |-> "none", provider |-> NoProvider, res |-> "ok",
                  wrote |-> FALSE, rep |-> FALSE]
    /\ current = [a \in AppTypes |-> NoCurrent]
    /\ sync = SyncIdle
    /\ snap = SnapStart

DoReadLiveSettings ==
    /\ \E app_type \in AppTypes :
          readOp' = [app |-> app_type, res |-> ReadLiveSettings(live, droidConfig, app_type),
                     live |-> live, config |-> droidConfig, settings |-> droidSettings]
    /\ UNCHANGED <<droidConfig, live, droidVars, current, sync, snap, atomVars, mcpVars, importVars>>

DoWriteDroidConfig ==
    /\ \E config \in {DroidConfigOld, DroidConfigNew}, io_ok \in BOOLEAN :
          droidConfig' = WriteDroidConfig(droidConfig, config, io_ok)
    /\ UNCHANGED <<readOp, live, droidVars, current, sync, snap, atomVars, mcpVars, importVars>>

NextRead == DoReadLiveSettings \/ DoWriteDroidConfig

SpecRead == InitRead /\ [][NextRead]_vars

\* The file whose absence means the app type is not configured: the one
\* read_live_settings looks for first
LiveFileRead(app_type) ==
    IF app_type = Claude THEN readOp.live.claude
    ELSE IF app_type = Codex THEN readOp.live.codexAuth
    ELSE IF app_type = Gemini THEN readOp.live.geminiEnv
    ELSE readOp.config

NotConfiguredErrors == {CodexAuthMissing, ClaudeLiveMissing, GeminiEnvMissing}

\* C15: for every app type, read_live_settings called while that app's live
\* file is absent returns a "not configured" error: not a successful value,
\* not an I/O or parse error.
C15_AbsentIsNotConfigured ==
    \A app_type \in AppTypes :
        (readOp.app = app_type /\ LiveFileRead(app_type) = Absent)
            => ~readOp.res.ok /\ readOp.res.err \in NotConfiguredErrors

\* What read_live_settings(Droid) returns while config.json is absent
C15_DroidAbsentReadsEmpty ==
    (readOp.app = Droid /\ readOp.config = Absent) => readOp.res = Ok(JObj(EmptyMap))

(***************************************************************************)
(* write_live_snapshot beside a process that reads the live files          *)
(***************************************************************************)
\* The file writes of write_live_snapshot in order.  atomic: the write goes
\* through write_json_file (a temporary file renamed over the target);
\* otherwise it is std::fs::write, which opens the target with truncation and
\* then writes the bytes.
WritesOf(app_type, provider) ==
    IF app_type = Claude
    THEN <<[file |-> "claude", content |-> File(provider.settings), atomic |-> TRUE]>>
    ELSE <<[file |-> "codexAuth", content |-> File(Get(provider.settings, "auth")),
            atomic |-> TRUE],
           [file |-> "codexConfig", content |-> Text(Get(provider.settings, "config").s),
            atomic |-> FALSE]>>

\* The live files once every write of the queue has taken effect
RECURSIVE TargetOf(_, _)
TargetOf(lv, queue) ==
    IF queue = <<>> THEN lv
    ELSE TargetOf(Put(lv, Head(queue).file, Head(queue).content), Tail(queue))

\* The first k characters of a text
Prefix(text, k) == SubSeq(text, 1, k)

AtomicApps == {Claude, Codex}

InitAtomic ==
    /\ live \in {lv \in InitialLiveFiles : lv.geminiEnv = Absent /\ lv.geminiSettings = Absent}
    /\ writer = [WriterOff EXCEPT !.at = live, !.target = live]
    /\ observed = NotObserved
    /\ mcpFile = Absent
    /\ servers = None
    /\ mcpOp = McpIdle
    /\ store = EmptyStore
    /\ importOp = ImportIdle
    /\ droidConfig = Absent
    /\ readOp = ReadIdle
    /\ droidSettings = Absent
    /\ droidPrev = Absent
    /\ droidOp = [op |-> "none", provider |-> NoProvider, res |-> "ok",
                  wrote |-> FALSE, rep |-> FALSE]
    /\ current = [a \in AppTypes |-> NoCurrent]
    /\ sync = SyncIdle
    /\ snap = SnapStart

\* The write under way
ThisWrite == writer.queue[writer.i]

\* The write under way is complete: on to the next write, or Ok(())
NextWrite(w) == IF w.i < Len(w.queue) THEN [w EXCEPT !.i = w.i + 1, !.phase = "start"]
                ELSE [w EXCEPT !.pc = "done", !.phase = "start", !.res = "ok"]

\* The write under way failed: map_err(..)? returns the I/O error
WriteFailed(w) == [w EXCEPT !.pc = "done", !.phase = "start", !.res = "io"]

\* write_live_snapshot is entered: the Codex arm checks the shape first
DoBeginWrite ==
    /\ writer.pc \in {"idle", "done"}
    /\ \E app_type \in AtomicApps : \E provider \in ProvidersOf(app_type) :
          writer' = IF app_type = Codex /\ CodexShapeError(provider.settings)
                    THEN [WriterOff EXCEPT !.pc = "done", !.at = live, !.target = live,
                                           !.res = "config"]
                    ELSE [WriterOff EXCEPT !.pc = "writing", !.at = live,
                                           !.queue = WritesOf(app_type, provider),
                                           !.target = TargetOf(live, WritesOf(app_type, provider))]
    /\ UNCHANGED <<live, observed, readVars, droidVars, current, sync, snap, mcpVars, importVars>>

\* write_json_file: the content is written to a temporary file
DoWriteTemp ==
    /\ writer.pc = "writing" /\ writer.phase = "start" /\ ThisWrite.atomic
    /\ \E io_ok \in BOOLEAN :
          writer' = IF io_ok THEN [writer EXCEPT !.phase = "renaming"] ELSE WriteFailed(writer)
    /\ UNCHANGED <<live, observed, readVars, droidVars, current, sync, snap, mcpVars, importVars>>

\* write_json_file: the temporary file is renamed over the target
DoRename ==
    /\ writer.pc = "writing" /\ writer.phase = "renaming"
    /\ \E io_ok \in BOOLEAN :
          IF io_ok
          THEN /\ live' = Put(live, ThisWrite.file, ThisWrite.content)
               /\ writer' = NextWrite(writer)
          ELSE /\ live' = live
               /\ writer' = WriteFailed(writer)
    /\ UNCHANGED <<observed, readVars, droidVars, current, sync, snap, mcpVars, importVars>>

\* std::fs::write: File::create opens the target, truncating it
DoOpenTruncate ==
    /\ writer.pc = "writing" /\ writer.phase = "start" /\ ~ThisWrite.atomic
    /\ \E io_ok \in BOOLEAN :
          IF io_ok
          THEN /\ live' = Put(live, ThisWrite.file, Text(<<>>))
               /\ writer' = IF ThisWrite.content.s = <<>> THEN NextWrite(writer)
                             ELSE [writer EXCEPT !.phase = "filling"]
          ELSE /\ live' = live
               /\ writer' = WriteFailed(writer)
    /\ UNCHANGED <<observed, readVars, droidVars, current, sync, snap, mcpVars, importVars>>

\* std::fs::write: write_all appends the bytes, in one or several writes
DoWriteBytes ==
    /\ writer.pc = "writing" /\ writer.phase = "filling"
    /\ \E io_ok \in BOOLEAN :
          IF io_ok
          THEN \E k \in (Len(live[ThisWrite.file].s) + 1)..Len(ThisWrite.content.s) :
                  /\ live' = Put(live, ThisWrite.file, Text(Prefix(ThisWrite.content.s, k)))
                  /\ writer' = IF k = Len(ThisWrite.content.s) THEN NextWrite(writer)
                                ELSE writer
          ELSE /\ live' = live
               /\ writer' = WriteFailed(writer)
    /\ UNCHANGED <<observed, readVars, droidVars, current, sync, snap, mcpVars, importVars>>

\* Another process (the external tool) reads one live file
DoObserve ==
    /\ \E f \in {"claude", "codexAuth", "codexConfig"} :
          observed' = [file |-> f, content |-> live[f], during |-> writer.pc = "writing",
                       old |-> writer.at[f], new |-> writer.target[f]]
    /\ UNCHANGED <<live, writer, readVars, droidVars, current, sync, snap, mcpVars, importVars>>

NextAtomic ==
    DoBeginWrite \/ DoWriteTemp \/ DoRename \/ DoOpenTruncate \/ DoWriteBytes \/ DoObserve

SpecAtomic == InitAtomic /\ [][NextAtomic]_vars

\* C16: while write_live_snapshot is running and none of its file operations
\* has failed, a process reading a live file gets either the complete content
\* the file had when the call began or the complete content the call writes
\* to it.
C16_WritesAtomic ==
    (observed.file # "none" /\ observed.during)
        => observed.content \in {observed.old, observed.new}

\* The files written through write_json_file are never seen in another state
C16_JsonWritesAtomic ==
    (observed.file \in {"claude", "codexAuth"} /\ observed.during)
        => observed.content \in {observed.old, observed.new}

\* A reader got half of the new config.toml
C16_TornReadReached ==
    /\ observed.file = "codexConfig"
    /\ observed.during
    /\ observed.content = Text(Prefix(TomlOne, 3))

(***************************************************************************)
(* The Droid settings file from an absent or empty document                *)
(***************************************************************************)
InitFromEmpty ==
    /\ droidSettings \in {Absent, File(DocEmpty)}
    /\ droidPrev = droidSettings
    /\ droidOp = [op |-> "none", provider |-> NoProvider, res |-> "ok",
                  wrote |-> FALSE, rep |-> FALSE]
    /\ live = NoLiveFiles
    /\ current = [a \in AppTypes |-> NoCurrent]
    /\ sync = SyncIdle
    /\ snap = SnapStart
    /\ droidConfig = Absent
    /\ readOp = ReadIdle
    /\ writer = WriterOff
    /\ observed = NotObserved
    /\ mcpFile = Absent
    /\ servers = None
    /\ mcpOp = McpIdle
    /\ store = EmptyStore
    /\ importOp = ImportIdle

NextFromEmpty == DoWriteDroidLive \/ DoRemoveDroidCustomModel

SpecFromEmpty == InitFromEmpty /\ [][NextFromEmpty]_vars

\* The integer index and the string id of an entry, None when it has none
IndexOf(m) == AsI64(Get(m, "index"))
IdOf(m) == AsStr(Get(m, "id"))

\* C17: starting from an absent or empty settings document, after any
\* sequence of write_droid_live and remove_droid_custom_model calls every
\* customModels entry has a non-negative integer index and a string id, no
\* two entries have the same index and no two have the same id.
C17_IndexesAndIdsDistinct ==
    LET models == ModelsOf(droidSettings)
    IN /\ \A i \in 1..Len(models) :
             /\ IndexOf(models[i]) # None
             /\ IndexOf(models[i]).n >= 0
             /\ IdOf(models[i]) # None
       /\ \A i, j \in 1..Len(models) :
             i # j => /\ IndexOf(models[i]) # IndexOf(models[j])
                      /\ IdOf(models[i]) # IdOf(models[j])

\* C17 witness: two entries whose names sanitise alike, one of them written
\* after a removal, so that the indexes are not the array positions.
C17_Witness ==
    LET models == ModelsOf(droidSettings)
    IN /\ LastWriteAppended
       /\ Len(models) = 2
       /\ IndexOf(models[1]) = JInt(1)
       /\ IndexOf(models[2]) = JInt(2)
       /\ IdOf(models[1]) = JStr(CustomPrefix \o MyDashX \o <<"-", "1">>)
       /\ IdOf(models[2]) = JStr(CustomPrefix \o MyDashX \o <<"-", "2">>)

(***************************************************************************)
(* sync_current_to_live: what the loop does for each app type              *)
(***************************************************************************)
\* The k-th turn of the loop is over and the run has not returned an error
\* from the loop
TurnOver(k) ==
    \/ sync.pc = "loop" /\ k < sync.i
    \/ sync.pc = "mcp"
    \/ sync.pc = "done" /\ sync.res \in {"ok", "mcp"}

\* The files of an app type are what write_live_snapshot leaves when it is
\* called with the provider on the files the run started from
WrittenFrom(app_type, provider) ==
    \A f \in FilesOfApp(app_type) :
        live[f] = WriteLiveSnapshot(sync.at, app_type, provider, 0).live[f]

\* C18: during and after a run of sync_current_to_live, an app type of the
\* loop without an effective current provider is not written (its files are
\* as they were when the run began); an app type with one has been written
\* with that provider's record once its turn is over; and the MCP sync-all
\* step has run only if the loop went through all its app types.
C18_SyncSkipsWritesThenMcp ==
    sync.pc # "idle" =>
        /\ \A k \in 1..Len(SyncApps) :
              IF current[SyncApps[k]] = NoCurrent
              THEN /\ SyncApps[k] \notin sync.written \cup sync.failed
                   /\ \A f \in FilesOfApp(SyncApps[k]) : live[f] = sync.at[f]
              ELSE TurnOver(k) => /\ SyncApps[k] \in sync.written
                                  /\ WrittenFrom(SyncApps[k], current[SyncApps[k]])
        /\ sync.pc = "mcp" => sync.i = Len(SyncApps)
        /\ sync.mcp =>
              /\ sync.pc = "done"
              /\ sync.failed = {}
              /\ \A k \in 1..Len(SyncApps) :
                    current[SyncApps[k]] # NoCurrent => SyncApps[k] \in sync.written

\* C18 witness: a run that skipped Claude, whose file existed, wrote Codex
\* and Gemini and then ran the MCP sync.
C18_Witness ==
    /\ sync.pc = "done"
    /\ sync.mcp
    /\ current[Claude] = NoCurrent
    /\ sync.at.claude = File(ClaudeOld)
    /\ live.claude = File(ClaudeOld)
    /\ sync.written = {Codex, Gemini}
    /\ live.codexConfig = Text(TomlOne)
    /\ live.codexConfig # sync.at.codexConfig

(***************************************************************************)
(* mcp.json and the known servers: the state machine                       *)
(***************************************************************************)
StdioSpec == JObj([command |-> JStr(<<"c">>), enabled |-> JBool(TRUE), name |-> JStr(<<"n">>)])
WrappedSpec == JObj([server |-> JObj([url |-> JStr(<<"u">>), id |-> JStr(<<"i">>)]),
                     command |-> JStr(<<"z">>), description |-> JStr(<<"d">>)])
NotObjectSpec == JStr(<<"x">>)
BadServerSpec == JObj([server |-> JInt(1), command |-> JStr(<<"c">>)])
ServerSpecs == {StdioSpec, WrappedSpec, NotObjectSpec, BadServerSpec}
ServerIds == {"fs", "web"}

\* Documents mcp.json may hold before the first operation
McpDocMixed == JObj([mcpServers |-> JObj([fs |-> JObj([command |-> JStr(<<"c">>)]),
                                          web |-> JObj([url |-> JStr(<<"u">>)]),
                                          bad |-> JInt(5),
                                          odd |-> JObj([type |-> JStr(<<"t">>)])]),
                     version |-> JInt(1)])
McpDocClean == JObj([mcpServers |-> JObj([fs |-> JObj([command |-> JStr(<<"c">>),
                                                       enabled |-> JBool(TRUE)])]),
                     version |-> JInt(1),
                     theme |-> Dark])
McpDocServersNotObject == JObj([mcpServers |-> JStr(<<"x">>), version |-> JInt(1)])
InitialMcpFiles ==
    {Absent, Malformed, File(JArr(<<>>)), File(McpDocMixed), File(McpDocClean),
     File(McpDocServersNotObject)}

\* Servers this program knows before the first operation
KnownWeb == [id |-> "web", name |-> "Web", server |-> JObj([url |-> JStr(<<"o">>)]),
             apps |-> [claude |-> TRUE, codex |-> FALSE, gemini |-> TRUE, droid |-> FALSE],
             description |-> Some(<<"d">>), homepage |-> None, docs |-> None,
             tags |-> <<"t">>]
KnownFs == [id |-> "fs", name |-> "Files", server |-> JObj([command |-> JStr(<<"o">>)]),
            apps |-> [claude |-> FALSE, codex |-> TRUE, gemini |-> FALSE, droid |-> TRUE],
            description |-> None, homepage |-> None, docs |-> None, tags |-> <<>>]
InitialServers == {None, Some([web |-> KnownWeb]), Some([fs |-> KnownFs, web |-> KnownWeb])}

\* Maps set_mcp_servers_map is called with
ServerMaps == {EmptyMap, [fs |-> StdioSpec], [fs |-> WrappedSpec, web |-> StdioSpec],
               [fs |-> StdioSpec, web |-> NotObjectSpec],
               [fs |-> BadServerSpec]}

InitMcp ==
    /\ mcpFile \in InitialMcpFiles
    /\ servers \in InitialServers
    /\ mcpOp = McpIdle
    /\ store = EmptyStore
    /\ importOp = ImportIdle
    /\ droidSettings = Absent
    /\ droidPrev = Absent
    /\ droidOp = [op |-> "none", provider |-> NoProvider, res |-> "ok",
                  wrote |-> FALSE, rep |-> FALSE]
    /\ live = NoLiveFiles
    /\ current = [a \in AppTypes |-> NoCurrent]
    /\ sync = SyncIdle
    /\ snap = SnapStart
    /\ droidConfig = Absent
    /\ readOp = ReadIdle
    /\ writer = WriterOff
    /\ observed = NotObserved

\* The outcome of an operation on the file is noted
NoteFileOp(op, id, arg, map, dir, r) ==
    /\ mcpFile' = r.file
    /\ mcpOp' = [op |-> op, id |-> id, arg |-> arg, map |-> map, dir |-> dir,
                 res |-> r.res, count |-> 0, file |-> mcpFile, servers |-> servers]
    /\ UNCHANGED <<servers, droidVars, live, current, sync, snap, readVars, atomVars, importVars>>

DoImportFromDroid ==
    LET r == ImportFromDroid(mcpFile, servers)
    IN /\ servers' = r.servers
       /\ mcpOp' = [McpIdle EXCEPT !.op = "import", !.res = r.res, !.count = r.count,
                                   !.file = mcpFile, !.servers = servers]
       /\ UNCHANGED <<mcpFile, droidVars, live, current, sync, snap, readVars, atomVars, importVars>>

DoSetMcpServersMap ==
    \E servers_map \in ServerMaps, io_ok \in BOOLEAN :
        NoteFileOp("set", "", None, servers_map, TRUE,
                   SetMcpServersMap(mcpFile, servers_map, io_ok))

\* ~/.factory exists whenever mcp.json does
DoSyncSingleServerToDroid ==
    \E id \in ServerIds, server_spec \in ServerSpecs, dir_exists, io_ok \in BOOLEAN :
        /\ mcpFile # Absent => dir_exists
        /\ NoteFileOp("sync", id, server_spec, EmptyMap, dir_exists,
                      SyncSingleServerToDroid(mcpFile, dir_exists, id, server_spec, io_ok))

DoRemoveServerFromDroid ==
    \E id \in ServerIds, dir_exists, io_ok \in BOOLEAN :
        /\ mcpFile # Absent => dir_exists
        /\ NoteFileOp("remove", id, None, EmptyMap, dir_exists,
                      RemoveServerFromDroid(mcpFile, dir_exists, id, io_ok))

NextMcp ==
    \/ DoImportFromDroid
    \/ DoSetMcpServersMap
    \/ DoSyncSingleServerToDroid
    \/ DoRemoveServerFromDroid

SpecMcp == InitMcp /\ [][NextMcp]_vars

\* The servers known, as a map (empty when there is none)
KnownMap(known) == IF known = None THEN EmptyMap ELSE known.v

\* C19: import_from_droid over a readable mcp.json returns Ok whatever the
\* entries are; an entry that fails validation creates and changes nothing;
\* every valid entry is known afterwards with Droid enabled: a record that
\* existed differs from before at most in its Droid flag, a new record has
\* only Droid enabled and holds the entry; no other record changes; and the
\* count returned is the number of records created or changed.
C19_ImportIsolatesFailures ==
    (mcpOp.op = "import" /\ ReadMcpServersMap(mcpOp.file).ok) =>
        LET map == ReadMcpServersMap(mcpOp.file).v
            before == KnownMap(mcpOp.servers)
            after == KnownMap(servers)
        IN /\ mcpOp.res = "ok"
           /\ DOMAIN after \subseteq DOMAIN before \cup DOMAIN map
           /\ \A id \in DOMAIN before : id \in DOMAIN after
           /\ \A id \in DOMAIN map :
                 IF ValidateServerSpec(map[id])
                 THEN /\ id \in DOMAIN after
                      /\ after[id].apps.droid
                      /\ id \in DOMAIN before =>
                            after[id] = [before[id] EXCEPT !.apps.droid = TRUE]
                      /\ id \notin DOMAIN before =>
                            /\ after[id].apps = OnlyDroid
                            /\ after[id].server = map[id]
                            /\ after[id].id = id
                 ELSE /\ id \notin DOMAIN before => id \notin DOMAIN after
                      /\ id \in DOMAIN before => after[id] = before[id]
           /\ \A id \in DOMAIN before \ DOMAIN map : after[id] = before[id]
           /\ mcpOp.count = Cardinality({id \in DOMAIN after :
                                            id \notin DOMAIN before \/ after[id] # before[id]})

\* C19 witness: an import over a file with two entries that fail validation
\* beside a new valid entry and a valid entry known without Droid.
C19_Witness ==
    /\ mcpOp.op = "import"
    /\ mcpOp.file = File(McpDocMixed)
    /\ mcpOp.servers = Some([web |-> KnownWeb])
    /\ mcpOp.res = "ok"
    /\ mcpOp.count = 2
    /\ DOMAIN servers.v = {"fs", "web"}
    /\ servers.v["web"].apps.claude

\* C20: set_mcp_servers_map, sync_single_server_to_droid and
\* remove_server_from_droid leave every top-level field of mcp.json other
\* than mcpServers as it was; a call that returns an error leaves the file
\* as it was, and a call with a server spec that is not an object returns
\* an error.
C20_OnlyMcpServersChanges ==
    mcpOp.op \in {"set", "sync", "remove"} =>
        /\ mcpOp.res # "ok" => mcpFile = mcpOp.file
        /\ mcpFile # mcpOp.file =>
              /\ mcpFile.st = "json"
              /\ FieldsBut(mcpFile.v, "mcpServers")
                   = FieldsBut(ReadJsonValue(mcpOp.file).v, "mcpServers")
        /\ (mcpOp.op = "set" /\ \E id \in DOMAIN mcpOp.map : mcpOp.map[id].t # "obj")
             => mcpOp.res # "ok"
        /\ (mcpOp.op = "sync" /\ mcpOp.dir /\ mcpOp.arg.t # "obj") => mcpOp.res # "ok"

\* C20 witness: a server was synced into a document with other top-level
\* fields, and the file changed.
C20_Witness ==
    /\ mcpOp.op = "sync"
    /\ mcpOp.res = "ok"
    /\ mcpOp.arg = WrappedSpec
    /\ mcpOp.file = File(McpDocClean)
    /\ mcpFile # mcpOp.file
    /\ Get(mcpFile.v, "theme") = Dark
    /\ Get(Get(mcpFile.v, "mcpServers"), mcpOp.id) = JObj([url |-> JStr(<<"u">>)])

\* A map with a spec that is not an object was refused over a document that
\* could have been written.
C20_RefusedReached ==
    /\ mcpOp.op = "set"
    /\ mcpOp.res = "mcp_validation"
    /\ mcpOp.file = File(McpDocClean)

(***************************************************************************)
(* import_default_config: the state machine                                *)
(***************************************************************************)
\* config.json with two entries in customModels
DroidConfigCamel == JObj([customModels |-> JArr(<<AcmeEntry, OwnEntry>>)])

\* A Claude settings.json with the model variables normalisation touches
ClaudeSmallFast == JObj([env |-> JObj([ANTHROPIC_AUTH_TOKEN |-> JStr(K1),
                                       ANTHROPIC_SMALL_FAST_MODEL |-> JStr(M1)])])

\* A store in which Claude and Droid have a provider already
StoreWithProviders ==
    [providers |-> [a \in AppTypes |->
                      IF a \in {Claude, Droid}
                      THEN [p1 |-> [id |-> "p1", name |-> "one", settings |-> JObj(EmptyMap),
                                    category |-> "custom"]]
                      ELSE EmptyMap],
     current |-> [a \in AppTypes |-> IF a \in {Claude, Droid} THEN "p1" ELSE ""]]

InitImport ==
    /\ live \in {lv \in [claude : {Absent, Malformed, File(ClaudeOld), File(ClaudeSmallFast)},
                          codexAuth : {Absent, File(CodexAuthOld)},
                          codexConfig : {Absent, Text(TomlOld)},
                          geminiEnv : {Absent, Env(GeminiEnvOld)},
                          geminiSettings : {Absent, Malformed, File(GeminiSettingsOld)}] :
                     (lv.codexConfig = Absent) => (lv.geminiSettings # Malformed)}
    /\ droidConfig \in {Absent, Malformed, File(DroidConfigOld), File(DroidConfigCamel)}
    /\ store \in {EmptyStore, StoreWithProviders}
    /\ importOp = ImportIdle
    /\ mcpFile = Absent
    /\ servers = None
    /\ mcpOp = McpIdle
    /\ droidSettings = Absent
    /\ droidPrev = Absent
    /\ droidOp = [op |-> "none", provider |-> NoProvider, res |-> "ok",
                  wrote |-> FALSE, rep |-> FALSE]
    /\ current = [a \in AppTypes |-> NoCurrent]
    /\ sync = SyncIdle
    /\ snap = SnapStart
    /\ readOp = ReadIdle
    /\ writer = WriterOff
    /\ observed = NotObserved

DoImportDefaultConfig ==
    /\ \E app_type \in AppTypes, db \in 0..3 :
          LET r == ImportDefaultConfig(store, live, droidConfig, app_type, db)
          IN /\ store' = r.store
             /\ importOp' = [app |-> app_type, db |-> db, res |-> r.res, store |-> store,
                             live |-> live, config |-> droidConfig]
    /\ UNCHANGED <<live, droidVars, current, sync, snap, readVars, atomVars, mcpVars>>

NextImport == DoImportDefaultConfig

SpecImport == InitImport /\ [][NextImport]_vars

\* The live file import_default_config looks for first was missing
ImportFileMissing ==
    IF importOp.app = Claude THEN importOp.live.claude = Absent
    ELSE IF importOp.app = Codex THEN importOp.live.codexAuth = Absent
    ELSE IF importOp.app = Gemini THEN importOp.live.geminiEnv = Absent
    ELSE importOp.config = Absent

\* C21: import_default_config (the database answering) returns Ok(false) and
\* leaves the store as it was when the app type has a provider already; when
\* it returns Ok(true) the store holds a provider "default" for the app type
\* and it is the current one; and when the app type has no provider and its
\* live file is missing it returns an error and the store is as it was.
C21_ImportDefaultConfig ==
    (importOp.app # "none" /\ importOp.db = 0) =>
        /\ DOMAIN importOp.store.providers[importOp.app] # {}
             => importOp.res = Ok(FALSE) /\ store = importOp.store
        /\ importOp.res = Ok(TRUE)
             => /\ "default" \in DOMAIN store.providers[importOp.app]
                /\ store.providers[importOp.app]["default"].settings
                     = ImportedSettings(importOp.live, importOp.config, importOp.app).v
                /\ store.current[importOp.app] = "default"
        /\ (DOMAIN importOp.store.providers[importOp.app] = {} /\ ImportFileMissing)
             => ~importOp.res.ok /\ store = importOp.store

\* What C21 says holds for Claude, Codex and Gemini
C21_ThreeAppsHold ==
    importOp.app \in {Claude, Codex, Gemini} => C21_ImportDefaultConfig

\* What import_default_config(Droid) does while config.json is missing and
\* the database answers: an empty provider becomes the current one
C21_DroidMissingImportsEmpty ==
    (importOp.app = Droid /\ importOp.db = 0 /\ importOp.config = Absent
       /\ DOMAIN importOp.store.providers[Droid] = {})
        => /\ importOp.res = Ok(TRUE)
           /\ store.providers[Droid]["default"].settings = JObj(EmptyMap)
           /\ store.current[Droid] = "default"

(***************************************************************************)
(* The selection pointer after writes and removals                         *)
(***************************************************************************)
\* sessionDefaultSettings.model of a file, None when it has none
PointerOf(f) == Get(Get(DocOf(f), "sessionDefaultSettings"), "model")

\* The ids of the entries of customModels of a file
IdsIn(f) == {IdOf(ModelsOf(f)[i]) : i \in 1..Len(ModelsOf(f))}

\* C22: starting from an absent or empty settings document, after any
\* sequence of write_droid_live and remove_droid_custom_model calls,
\* sessionDefaultSettings.model, when present, is the id of an entry that is
\* in customModels.
C22_PointerNamesEntry ==
    PointerOf(droidSettings) # None
        => AsStr(PointerOf(droidSettings)) \in IdsIn(droidSettings) \ {None}

\* What holds instead: right after a successful write the pointer is the id
\* of the entry written, and a removal leaves the pointer as it was
C22_PointerAfterWrite ==
    /\ LastWriteOk => AsStr(PointerOf(droidSettings)) = IdOf(WrittenEntry)
    /\ droidOp.op = "remove" => PointerOf(droidSettings) = PointerOf(droidPrev)

\* The removal of the selected entry has left the pointer naming it
C22_DanglingReached ==
    /\ droidOp.op = "remove" /\ droidOp.res = "ok" /\ droidOp.wrote
    /\ PointerOf(droidSettings) # None
    /\ AsStr(PointerOf(droidSettings)) \notin IdsIn(droidSettings)
    /\ AsStr(PointerOf(droidSettings)) \in IdsIn(droidPrev)

(***************************************************************************)
(* write_droid_live followed by read_live_settings                         *)
(***************************************************************************)
InitReadBack ==
    /\ droidSettings \in {Absent, File(DocEmpty)}
    /\ droidPrev = droidSettings
    /\ droidOp = [op |-> "none", provider |-> NoProvider, res |-> "ok",
                  wrote |-> FALSE, rep |-> FALSE]
    /\ droidConfig \in {Absent, File(DroidConfigOld), File(DroidConfigCamel)}
    /\ live = NoLiveFiles
    /\ current = [a \in AppTypes |-> NoCurrent]
    /\ sync = SyncIdle
    /\ snap = SnapStart
    /\ readOp = ReadIdle
    /\ writer = WriterOff
    /\ observed = NotObserved
    /\ mcpFile = Absent
    /\ servers = None
    /\ mcpOp = McpIdle
    /\ store = EmptyStore
    /\ importOp = ImportIdle

NextReadBack == DoWriteDroidLive \/ DoReadLiveSettings

SpecReadBack == InitReadBack /\ [][NextReadBack]_vars

\* The last read was of Droid and found settings.json as the last write,
\* a successful one, left it
ReadAfterWrite ==
    /\ LastWriteOk
    /\ readOp.app = Droid
    /\ readOp.settings = droidSettings

\* The entries of customModels of the document a read returned
ModelsRead == IF readOp.res.ok /\ Get(readOp.res.v, "customModels").t = "arr"
              THEN Get(readOp.res.v, "customModels").a ELSE <<>>

\* C23: after write_droid_live(p) has succeeded, read_live_settings(Droid)
\* returns a document whose customModels holds the entry written for p.
C23_ReadBackSeesWrite ==
    ReadAfterWrite
        => /\ readOp.res.ok
           /\ \E i \in 1..Len(ModelsRead) : ModelsRead[i] = WrittenEntry

\* What the read returns: the content of config.json, which the write has
\* not touched
C23_ReadsConfigJson ==
    readOp.app = Droid
        => /\ readOp.config = droidConfig
           /\ readOp.res = ReadDroidConfig(droidConfig)

\* A read after a successful write that returned a document without the
\* entry written
C23_MissedReached ==
    /\ ReadAfterWrite
    /\ readOp.res.ok
    /\ \A i \in 1..Len(ModelsRead) : ModelsRead[i] # WrittenEntry

(***************************************************************************)
(* sync_current_to_live and the four app types                             *)
(***************************************************************************)
\* sync_current_to_live has returned Ok
SyncReturnedOk == sync.pc = "done" /\ sync.res = "ok"

\* C24: when sync_current_to_live has returned Ok, every one of the four app
\* types that has an effective current provider, Droid included, has had its
\* live write performed.
C24_SyncCoversFourApps ==
    SyncReturnedOk
        => \A a \in AppTypes : current[a] # NoCurrent => a \in sync.written

\* What the run does for Droid: it is never written, and settings.json is
\* as it was
C24_DroidNeverWritten ==
    /\ Droid \notin sync.written \cup sync.failed
    /\ droidSettings = Absent

\* A run that returned Ok with a current Droid provider it did not write
C24_DroidLeftOutReached ==
    /\ SyncReturnedOk
    /\ current[Droid] = DroidCurrent
    /\ Droid \notin sync.written
    /\ \A a \in {Claude, Codex, Gemini} : a \in sync.written

(***************************************************************************)
(* write_gemini_live with an object config                                 *)
(***************************************************************************)
\* The top-level fields of the settings document the write found: those of
\* the file when it held a JSON object, none when it was missing or unreadable
ExistingFields == IF snap.at.geminiSettings.st = "json" /\ snap.at.geminiSettings.v.t = "obj"
                  THEN snap.at.geminiSettings.v.o ELSE EmptyMap

\* The existing document with each top-level key of the provider's config
\* overwritten by config's value
ExpectedMerge ==
    LET config == Get(snap.provider.settings, "config").o
    IN JObj([k \in DOMAIN ExistingFields \cup DOMAIN config |->
               IF k \in DOMAIN config THEN config[k] ELSE ExistingFields[k]])

\* write_gemini_live was called with a config that is an object
ObjectConfigWritten ==
    /\ GeminiWritten
    /\ Get(snap.provider.settings, "config").t = "obj"

BadDroidDocument(f) ==
    /\ f.st = "json"
    /\ \/ f.v.t # "obj"
       \/ Get(f.v, "customModels") # None /\ Get(f.v, "customModels").t # "arr"

\* C26: write_droid_live returns a configuration error and leaves
\* settings.json as it was when the root of the existing document is not an
\* object, when its customModels is not an array, or when the provider's
\* settings are not an object.
C26_ConfigErrorsLeaveFile ==
    (droidOp.op = "write"
       /\ (BadDroidDocument(droidPrev) \/ droidOp.provider.settings.t # "obj"))
        => /\ droidOp.res = "config"
           /\ ~droidOp.wrote
           /\ droidSettings = droidPrev

\* C26 witness: well-formed documents with entries, held by a file that was
\* written before, refused a provider whose settings are an array
C26_Witness ==
    /\ droidOp.op = "write"
    /\ droidOp.res = "config"
    /\ droidOp.provider.settings = SettingsNotObject
    /\ ~BadDroidDocument(droidPrev)
    /\ Len(ModelsOf(droidPrev)) > 0
    /\ droidSettings = droidPrev

\* The two refusals for the shape of the document
C26_RootRefusedReached ==
    /\ droidOp.op = "write" /\ droidOp.res = "config"
    /\ droidPrev = File(DocRootArray)
    /\ droidOp.provider.settings.t = "obj"

C26_ModelsRefusedReached ==
    /\ droidOp.op = "write" /\ droidOp.res = "config"
    /\ droidPrev = File(DocModelsNotArray)
    /\ droidOp.provider.settings.t = "obj"

(***************************************************************************)
(* cleanup_settings_for_new_config as a normalization                      *)
(***************************************************************************)
\* What the cleanup is to leave of a settings document: no customModels when
\* it was an empty array, no model in sessionDefaultSettings when that is an
\* object, every other field and every other value as it was
Cleaned(doc) ==
    IF doc.t # "obj" THEN doc
    ELSE JObj([k \in {j \in DOMAIN doc.o : ~(j = "customModels" /\ doc.o[j] = JArr(<<>>))} |->
                 IF k = "sessionDefaultSettings" /\ doc.o[k].t = "obj"
                 THEN JObj([j \in DOMAIN doc.o[k].o \ {"model"} |-> doc.o[k].o[j]])
                 ELSE doc.o[k]])

\* C27: a cleanup_settings_for_new_config that returned Ok has removed only
\* an empty customModels array and sessionDefaultSettings.model, leaving a
\* non-empty customModels and every other field as they were; it has written
\* the file only if it removed something; and a cleanup right after a
\* successful one changes nothing, writes nothing and returns Ok.
C27_CleanupIdempotent ==
    droidOp.op = "cleanup" =>
        /\ droidOp.res = "ok" /\ droidPrev.st = "json"
             => /\ droidSettings = File(Cleaned(droidPrev.v))
                /\ Len(ModelsOf(droidPrev)) > 0 => ModelsOf(droidSettings) = ModelsOf(droidPrev)
        /\ droidOp.wrote => droidSettings # droidPrev
        /\ ~droidOp.wrote => droidSettings = droidPrev
        /\ droidOp.rep => /\ droidOp.res = "ok"
                          /\ ~droidOp.wrote
                          /\ droidSettings = droidPrev

\* C27 witness: a second cleanup right after one that removed the empty
\* customModels and the pointer from a document with other fields, which it
\* kept
C27_Witness ==
    /\ droidOp.op = "cleanup"
    /\ droidOp.rep
    /\ ~droidOp.wrote
    /\ droidSettings = File(Cleaned(DocNoModels))
    /\ droidSettings # File(DocNoModels)
    /\ Get(droidSettings.v, "theme") = Dark
    /\ Get(Get(droidSettings.v, "sessionDefaultSettings"), "autonomy") # None

\* A cleanup that removed the pointer and kept a non-empty customModels
C27_KeptModelsReached ==
    /\ droidOp.op = "cleanup" /\ droidOp.wrote
    /\ Len(ModelsOf(droidSettings)) > 0
    /\ PointerOf(droidPrev) # None
    /\ PointerOf(droidSettings) = None

====
